---- MODULE Spec2Model ----
(***************************************************************************)
(* Terminal Hook: the terminal buffer service (TerminalBufferService) and  *)
(* the tool layer of the MCP server (MCPServer) that reads it.             *)
(*                                                                         *)
(* Text is modelled as it is in the program: a string is a sequence of     *)
(* character codes, so that the regular expressions, trim, toLowerCase,    *)
(* includes, split and join are computed on characters.                    *)
(***************************************************************************)
EXTENDS Integers, Sequences, FiniteSets, TLC

(***************************************************************************)
(* Bounds of the model                                                     *)
(***************************************************************************)
\* capacities 0..MaxCap are tried for the constructor's maxBufferLines
MaxCap == 1
\* largest size of a state: the TerminalData objects created so far, the
\* ticks of the clock and the lines appended to the live sessions, together
MaxSize == 4

\* largest size of a state in which a host signal is taken while the
\* listener is being exercised
MaxHost == 2

(***************************************************************************)
(* Characters                                                              *)
(***************************************************************************)
BS  == 8
TAB == 9
LF  == 10
CR  == 13
ESC == 27
SP  == 32
BEL == 7

Min(a, b) == IF a < b THEN a ELSE b
Max(a, b) == IF a > b THEN a ELSE b

\* String.prototype.includes
Includes(s, t) ==
  \E i \in 0..(Len(s) - Len(t)) : SubSeq(s, i + 1, i + Len(t)) = t

\* String.prototype.startsWith
StartsWith(s, t) == Len(t) <= Len(s) /\ SubSeq(s, 1, Len(t)) = t

\* String.prototype.toLowerCase
ToLowerCase(s) ==
  [i \in 1..Len(s) |-> IF s[i] \in 65..90 THEN s[i] + 32 ELSE s[i]]

\* the white space String.prototype.trim removes
IsWhiteSpace(c) == c \in {TAB, LF, 11, 12, CR, SP, 160}

RECURSIVE TrimStart(_)
TrimStart(s) ==
  IF s # <<>> /\ IsWhiteSpace(Head(s)) THEN TrimStart(Tail(s)) ELSE s

RECURSIVE TrimEnd(_)
TrimEnd(s) ==
  IF s # <<>> /\ IsWhiteSpace(s[Len(s)])
    THEN TrimEnd(SubSeq(s, 1, Len(s) - 1))
    ELSE s

\* String.prototype.trim
Trim(s) == TrimEnd(TrimStart(s))

\* String.prototype.split('\n'): the pieces between the separators
RECURSIVE Split(_, _)
Split(s, sep) ==
  IF \A i \in 1..Len(s) : s[i] # sep
    THEN <<s>>
    ELSE LET k == CHOOSE i \in 1..Len(s) :
                    s[i] = sep /\ \A j \in 1..(i - 1) : s[j] # sep
         IN <<SubSeq(s, 1, k - 1)>> \o Split(SubSeq(s, k + 1, Len(s)), sep)

\* Array.prototype.join('\n')
RECURSIVE Join(_, _)
Join(parts, sep) ==
  IF parts = <<>> THEN <<>>
  ELSE IF Len(parts) = 1 THEN parts[1]
  ELSE parts[1] \o <<sep>> \o Join(Tail(parts), sep)

\* Array.prototype.slice(start): a negative start counts from the end
SliceFrom(arr, start) ==
  LET k == IF start < 0 THEN Max(Len(arr) + start, 0) ELSE Min(start, Len(arr))
  IN SubSeq(arr, k + 1, Len(arr))

\* the decimal digits of a counter, as the template literal prints it
RECURSIVE Decimal(_)
Decimal(n) ==
  IF n < 10 THEN <<48 + n>> ELSE Decimal(n \div 10) \o <<48 + (n % 10)>>

(***************************************************************************)
(* stripAnsiCodes: the chain of replacements                               *)
(***************************************************************************)
\* first index >= i whose character is outside class (Len(s)+1 when none)
RECURSIVE SkipClass(_, _, _)
SkipClass(s, i, class) ==
  IF i <= Len(s) /\ s[i] \in class THEN SkipClass(s, i + 1, class) ELSE i

\* /\x1B(?:[@-Z\\-_]|\[[0-?]*[ -/]*[@-~])/ : last index of a match at i, or 0
MatchEscape(s, i) ==
  IF ~(i + 1 <= Len(s) /\ s[i] = ESC) THEN 0
  ELSE IF s[i + 1] \in (64..90) \cup (92..95) THEN i + 1
  ELSE IF s[i + 1] # 91 THEN 0
  ELSE LET p == SkipClass(s, i + 2, 48..63)
           q == SkipClass(s, p, 32..47)
       IN IF q <= Len(s) /\ s[q] \in 64..126 THEN q ELSE 0

\* [^\x07\x1B]* : first index >= i holding a bell or an escape
RECURSIVE SkipOscBody(_, _)
SkipOscBody(s, i) ==
  IF i <= Len(s) /\ s[i] \notin {BEL, ESC} THEN SkipOscBody(s, i + 1) ELSE i

\* /\x1B\][^\x07\x1B]*(?:\x07|\x1B\\)/ : last index of a match at i, or 0
MatchOsc(s, i) ==
  IF ~(i + 1 <= Len(s) /\ s[i] = ESC /\ s[i + 1] = 93) THEN 0
  ELSE LET p == SkipOscBody(s, i + 2)
       IN IF p <= Len(s) /\ s[p] = BEL THEN p
          ELSE IF p + 1 <= Len(s) /\ s[p] = ESC /\ s[p + 1] = 92 THEN p + 1
          ELSE 0

\* /\x1B[=>]/
MatchKeypad(s, i) ==
  IF i + 1 <= Len(s) /\ s[i] = ESC /\ s[i + 1] \in {61, 62} THEN i + 1 ELSE 0

\* /.\x08/ : any character but a line terminator, then a backspace
MatchBackspace(s, i) ==
  IF i + 1 <= Len(s) /\ s[i] \notin {LF, CR, 8232, 8233} /\ s[i + 1] = BS
    THEN i + 1
    ELSE 0

\* the class of control characters ending before the escape, at \x1A
MatchControlNoEscape(s, i) ==
  IF s[i] \in (0..8) \cup {11, 12} \cup (14..26) THEN i ELSE 0

\* the class of control characters without the backspace
MatchControlNoBackspace(s, i) ==
  IF s[i] \in (0..7) \cup {11, 12} \cup (14..31) THEN i ELSE 0

\* /[\x00-\x08\x0B\x0C\x0E-\x1F]/ and the single characters \x07, \r
MatchControl(s, i) ==
  IF s[i] \in (0..8) \cup {11, 12} \cup (14..31) THEN i ELSE 0

MatchBel(s, i) == IF s[i] = BEL THEN i ELSE 0

MatchCr(s, i) == IF s[i] = CR THEN i ELSE 0

\* the regular expressions of stripAnsiCodes, by name
MatchAt(re, s, i) ==
  CASE re = "escape" -> MatchEscape(s, i)
    [] re = "osc" -> MatchOsc(s, i)
    [] re = "keypad" -> MatchKeypad(s, i)
    [] re = "bel" -> MatchBel(s, i)
    [] re = "cr" -> MatchCr(s, i)
    [] re = "backspace" -> MatchBackspace(s, i)
    [] re = "control" -> MatchControl(s, i)

\* str.replace(/re/g, ''): matches are taken left to right, without overlap
RECURSIVE RemoveAll(_, _, _)
RemoveAll(re, s, i) ==
  IF i > Len(s) THEN <<>>
  ELSE LET e == MatchAt(re, s, i)
       IN IF e > 0 THEN RemoveAll(re, s, e + 1)
          ELSE <<s[i]>> \o RemoveAll(re, s, i + 1)

\* str.replace(/  +/g, ' '): a run of two or more spaces becomes one space
CollapseSpaces(s) ==
  LET keep == {i \in 1..Len(s) : ~(s[i] = SP /\ i > 1 /\ s[i - 1] = SP)}
      F[i \in 0..Len(s)] ==
        IF i = 0 THEN <<>>
        ELSE IF i \in keep THEN Append(F[i - 1], s[i]) ELSE F[i - 1]
  IN F[Len(s)]

TrimLines(s) ==
  LET parts == Split(s, LF)
  IN Join([i \in 1..Len(parts) |-> Trim(parts[i])], LF)

\* the chain with the runs of spaces collapsed first
stripAnsiCodesCollapseFirst(str) ==
  LET s0 == CollapseSpaces(str)
      s1 == RemoveAll("escape", s0, 1)
      s2 == RemoveAll("osc", s1, 1)
      s3 == RemoveAll("keypad", s2, 1)
      s4 == RemoveAll("bel", s3, 1)
      s5 == RemoveAll("cr", s4, 1)
      s6 == RemoveAll("backspace", s5, 1)
      s7 == RemoveAll("control", s6, 1)
  IN TrimLines(s7)

stripAnsiCodes(str) ==
  LET s1 == RemoveAll("escape", str, 1)
      s2 == RemoveAll("osc", s1, 1)
      s3 == RemoveAll("keypad", s2, 1)
      s4 == RemoveAll("bel", s3, 1)
      s5 == RemoveAll("cr", s4, 1)
      s6 == RemoveAll("backspace", s5, 1)
      s7 == RemoveAll("control", s6, 1)
      s8 == CollapseSpaces(s7)
  IN TrimLines(s8)

(***************************************************************************)
(* isNoiseLine                                                             *)
(***************************************************************************)
OSCLock     == <<79, 83, 67, 76, 111, 99, 107, 61>>
OSCUnlock   == <<79, 83, 67, 85, 110, 108, 111, 99, 107, 61>>
StartPrompt == <<83, 116, 97, 114, 116, 80, 114, 111, 109, 112, 116>>
EndPrompt   == <<69, 110, 100, 80, 114, 111, 109, 112, 116>>
PreExec     == <<80, 114, 101, 69, 120, 101, 99>>
NewCmd      == <<78, 101, 119, 67, 109, 100, 61>>
\* the three characters the source compares with, '%' and '$'
PromptGlyphs == {<<226, 382, 339>>, <<37>>, <<36>>}

\* /^\d+;/
NumericPrefix(line) ==
  LET p == SkipClass(line, 1, 48..57)
  IN p > 1 /\ p <= Len(line) /\ line[p] = 59

isNoiseLine(line) ==
  \/ NumericPrefix(line)
  \/ StartsWith(line, <<49, 59>>) \/ StartsWith(line, <<50, 59>>)
  \/ StartsWith(line, <<55, 59>>)
  \/ line \in PromptGlyphs
  \/ Includes(line, OSCLock) \/ Includes(line, OSCUnlock)
  \/ Includes(line, StartPrompt) \/ Includes(line, EndPrompt)
  \/ Includes(line, PreExec) \/ Includes(line, NewCmd)

\* the lines of a chunk that captureTerminalData pushes, in order
SurvivingLines(data) ==
  LET lines == Split(stripAnsiCodes(data), LF)
      F[i \in 0..Len(lines)] ==
        IF i = 0 THEN <<>>
        ELSE LET trimmedLine == Trim(lines[i])
             IN IF Len(trimmedLine) > 0 /\ ~isNoiseLine(trimmedLine)
                  THEN Append(F[i - 1], trimmedLine)
                  ELSE F[i - 1]
  IN F[Len(lines)]

(***************************************************************************)
(* Inputs                                                                  *)
(***************************************************************************)
\* the host's terminal handles
Handles == {"h1", "h2"}

\* the display names a handle can have: h1 is "Terminal-1-b", h2 is "b"
NamesOf(h) ==
  IF h = "h1"
    THEN {<<84, 101, 114, 109, 105, 110, 97, 108, 45, 49, 45, 98>>}
    ELSE {<<98>>}

\* raw chunks: "x\n", "y\r\nz\n", ESC[32mx ESC[0m\n, and "$\n1;a\n  \n"
Chunks ==
  {<<120, LF>>,
   <<121, CR, LF, 122, LF>>,
   <<ESC, 91, 51, 50, 109, 120, ESC, 91, 48, 109, LF>>,
   <<36, LF, 49, 59, 97, LF, SP, SP, LF>>}

\* the largest length of a raw chunk
MaxChunk == 3

\* the characters of a raw chunk: escape, '[', ']', bell, backspace, space,
\* 'x' and the newline
Alphabet == {ESC, 91, 93, BEL, BS, SP, 120, LF}

\* "\x1b[32mBuild OK\x1b[0m\n"
BuildOK ==
  <<ESC, 91, 51, 50, 109, 66, 117, 105, 108, 100, SP, 79, 75,
    ESC, 91, 48, 109, LF>>

\* longer chunks: "xx\b\b"; "\x1b[\x1b[mx", a sequence inside another;
\* "x \x01 x", a control character between spaces; "\x1b]0;x\x07x\n", a
\* title sequence; "x\ty\n" and "\tx\r\n", tabs inside and before a line;
\* and "$\n1;a\n  \n", a prompt glyph, a control payload and a blank line
LongChunks ==
  {BuildOK,
   <<120, 120, BS, BS>>,
   <<ESC, 91, ESC, 91, 109, 120>>,
   <<120, SP, 1, SP, 120>>,
   <<ESC, 93, 48, 59, 120, BEL, 120, LF>>,
   <<120, TAB, 121, LF>>,
   <<TAB, 120, CR, LF>>,
   <<36, LF, 49, 59, 97, LF, SP, SP, LF>>}

\* the raw chunks the host delivers
RawChunks == UNION {[1..n -> Alphabet] : n \in 0..MaxChunk} \cup LongChunks

\* the lines that survive of every chunk the host delivers
Survivors == [d \in Chunks \cup RawChunks |-> SurvivingLines(d)]

\* what captureTerminalData pushes for data
Pushed(data) == Survivors[data]

\* query texts besides the names and the identifiers: "B", "x"
ExtraQueries == {<<66>>, <<120>>}

\* an optional argument: <<>> when omitted, <<v>> when given
LinesArgs == {<<>>, <<0>>, <<1>>}

(***************************************************************************)
(* State                                                                   *)
(***************************************************************************)
VARIABLES
  maxBufferLines,   \* TerminalBufferService.maxBufferLines
  terminals,        \* the Map terminals, as its entries in insertion order
  terminalToIdMap,  \* the WeakMap from handle to identifier
  terminalCounter,  \* TerminalBufferService.terminalCounter
  clock,            \* what new Date() reads
  hist,             \* history: identifier and name of every TerminalData
                    \* object ever created, in creation order, and whether
                    \* its handle was closed since
  initialized,      \* MCPServer.initialized
  sockets,          \* the connections net.createServer has accepted
  chunk,            \* a raw chunk, and what stripAnsiCodes returned for it
                    \* and for what it returned
  disposables,      \* TerminalBufferService.disposables
  subscriptions,    \* the host's listeners, one for each event: whether
                    \* initialize made it, whether the host still has it,
                    \* and how often it was disposed of
  listening,        \* the port net.Server listens on: <<>> or <<port>>
  env,              \* process.env.VSCODE_TERMINAL_MCP_PORT of the proxy:
                    \* <<>> when unset, else <<text>>
  calls,            \* the tool calls of the proxy's client
  links,            \* the sockets sendToExtension has created, in order
  last              \* history: the last operation and what it returned

vars ==
  <<maxBufferLines, terminals, terminalToIdMap, terminalCounter, clock,
    hist, initialized, sockets, chunk, disposables, subscriptions, listening,
    env, calls, links, last>>

\* the variables that the service, the tools and the handlers of a
\* connection do not touch
outside ==
  <<chunk, disposables, subscriptions, listening, env, calls, links>>

\* const port = 9876
port == 9876

\* the tool calls a client of the proxy makes
Calls == {"r1", "r2"}

NoCall == [state |-> "idle", value |-> <<>>, result |-> <<>>]

\* the events of the host that initialize subscribes to; the last one only
\* where the host has onDidWriteTerminalData
Events == <<"opened", "closed", "dataWritten">>

\* the listeners after initialize, for the first n events
Subscribed(n) ==
  /\ disposables = SubSeq(Events, 1, n)
  /\ subscriptions =
       [e \in {Events[i] : i \in 1..Len(Events)} |->
          [made |-> \E i \in 1..n : Events[i] = e,
           live |-> \E i \in 1..n : Events[i] = e,
           released |-> 0]]

\* initialize has run, the listener is started, the proxy has not been
\* called
NoProxy ==
  /\ Subscribed(3)
  /\ listening = <<port>>
  /\ env = <<>>
  /\ calls = [r \in Calls |-> NoCall]
  /\ links = <<>>

\* the value of processId before the promise resolves
Undefined == "undefined"

\* the connections a client can make to the listener
Conns == {"c1", "c2"}

\* a connection that was not made yet; partial and faults are history: the
\* characters received since the last newline, and the kinds of error
\* response written on the connection so far
NoSocket == [state |-> "NONE", partial |-> <<>>, faults |-> {}]

\* a connection that has ended
ClosedSocket == [state |-> "CLOSED", partial |-> <<>>, faults |-> {}]

\* WeakMap.get of a handle that was never set
NoId == <<>>

IdPrefix == <<116, 101, 114, 109, 105, 110, 97, 108, 45>>

\* `terminal-${this.terminalCounter++}-${terminal.name}`
FormatId(counter, name) == IdPrefix \o Decimal(counter) \o <<45>> \o name

\* Map.has
Has(map, id) == \E i \in 1..Len(map) : map[i].id = id

\* the position of a key of the Map
IndexOf(map, id) == CHOOSE i \in 1..Len(map) : map[i].id = id

\* a removal with a grace period: an entry with buffered lines is kept
DeleteUnlessBuffered(map, id) ==
  LET F[i \in 0..Len(map)] ==
        IF i = 0 THEN <<>>
        ELSE IF map[i].id = id /\ map[i].buffer = <<>>
          THEN F[i - 1]
          ELSE Append(F[i - 1], map[i])
  IN F[Len(map)]

\* Map.delete
Delete(map, id) ==
  LET F[i \in 0..Len(map)] ==
        IF i = 0 THEN <<>>
        ELSE IF map[i].id = id THEN F[i - 1] ELSE Append(F[i - 1], map[i])
  IN F[Len(map)]

\* the identifier getTerminalId returns for a handle named name
getTerminalId(h, name) ==
  IF terminalToIdMap[h] # NoId
    THEN terminalToIdMap[h]
    ELSE FormatId(terminalCounter, name)

\* what getTerminalId leaves in terminalToIdMap and terminalCounter
getTerminalIdEffect(h, name) ==
  /\ terminalToIdMap' = [terminalToIdMap EXCEPT ![h] = getTerminalId(h, name)]
  /\ terminalCounter' =
       IF terminalToIdMap[h] # NoId THEN terminalCounter ELSE terminalCounter + 1

\* the session of a handle, if it has a live one
LiveIndex(h) ==
  IF terminalToIdMap[h] # NoId /\ Has(terminals, terminalToIdMap[h])
    THEN IndexOf(terminals, terminalToIdMap[h])
    ELSE 0

\* the lines appended to the sessions of ts since their last clearing
RECURSIVE Lines(_)
Lines(ts) ==
  IF ts = <<>> THEN 0 ELSE Len(Head(ts).appended) + Lines(Tail(ts))

\* the size of the state
Size == Len(hist) + clock + Lines(terminals)

\* the step changed a variable of the program
Changed ==
  <<terminals, terminalToIdMap, terminalCounter, clock, hist>>'
    # <<terminals, terminalToIdMap, terminalCounter, clock, hist>>

\* the record of a host signal for handle h
Signal(op, h) ==
  [op |-> op, h |-> h, live |-> LiveIndex(h) # 0, changed |-> Changed]

\* no chunk is looked at
NoChunk == [raw |-> <<>>, out |-> <<>>, again |-> <<>>]

\* the service and the listener as the constructors leave them
Created ==
  /\ maxBufferLines \in 0..MaxCap
  /\ terminals = <<>>
  /\ terminalToIdMap = [h \in Handles |-> NoId]
  /\ terminalCounter = 0
  /\ clock = 0
  /\ hist = <<>>
  /\ initialized = FALSE
  /\ sockets = [c \in Conns |-> NoSocket]
  /\ last = [op |-> "new", changed |-> TRUE]

Init == Created /\ chunk = NoChunk /\ NoProxy

\* an opened signal that always starts a new TerminalData for its handle
registerTerminalAgain(h, name) ==
  LET id == getTerminalId(h, name)
      fresh == [obj |-> Len(hist) + 1, id |-> id, name |-> name,
                processId |-> Undefined, buffer |-> <<>>,
                createdAt |-> clock, lastActivity |-> clock,
                appended |-> <<>>]
  IN /\ getTerminalIdEffect(h, name)
     /\ terminals' = Append(Delete(terminals, id), fresh)
     /\ hist' = Append(hist, [id |-> id, name |-> name, closed |-> FALSE])

registerTerminal(h, name) ==
  LET id == getTerminalId(h, name)
  IN /\ getTerminalIdEffect(h, name)
     /\ IF ~Has(terminals, id)
          THEN /\ terminals' =
                    Append(terminals,
                           [obj |-> Len(hist) + 1, id |-> id, name |-> name,
                            processId |-> Undefined, buffer |-> <<>>,
                            createdAt |-> clock, lastActivity |-> clock,
                            appended |-> <<>>])
               /\ hist' = Append(hist, [id |-> id, name |-> name,
                                        closed |-> FALSE])
          ELSE UNCHANGED <<terminals, hist>>

unregisterTerminal(h, name) ==
  /\ getTerminalIdEffect(h, name)
  /\ terminals' = Delete(terminals, getTerminalId(h, name))
  /\ hist' = IF LiveIndex(h) = 0 THEN hist
             ELSE [hist EXCEPT ![terminals[LiveIndex(h)].obj].closed = TRUE]

\* buffer.slice(-maxBufferLines) once the buffer is longer than the capacity
TrimBuffer(buffer) ==
  IF Len(buffer) > maxBufferLines
    THEN SliceFrom(buffer, 0 - maxBufferLines)
    ELSE buffer

\* data of a handle without a session lands in the first session
captureTerminalDataAnywhere(h, data) ==
  LET i == IF LiveIndex(h) # 0 THEN LiveIndex(h)
           ELSE IF Len(terminals) > 0 THEN 1 ELSE 0
  IN IF i = 0
       THEN UNCHANGED terminals
       ELSE terminals' =
              [terminals EXCEPT
                 ![i].buffer = TrimBuffer(terminals[i].buffer \o Pushed(data)),
                 ![i].lastActivity = clock,
                 ![i].appended = @ \o Pushed(data)]

\* the time stamp is written only when a line was pushed
captureTerminalDataStampOnPush(h, data) ==
  LET i == LiveIndex(h)
  IN IF i = 0
       THEN UNCHANGED terminals
       ELSE LET pushed == Pushed(data)
            IN terminals' =
                 [terminals EXCEPT
                    ![i].buffer = TrimBuffer(terminals[i].buffer \o pushed),
                    ![i].lastActivity = IF pushed = <<>> THEN @ ELSE clock,
                    ![i].appended = @ \o pushed]

captureTerminalData(h, data) ==
  LET i == LiveIndex(h)
  IN IF i = 0
       THEN UNCHANGED terminals
       ELSE LET pushed == Pushed(data)
            IN terminals' =
                 [terminals EXCEPT
                    ![i].buffer = TrimBuffer(terminals[i].buffer \o pushed),
                    ![i].lastActivity = clock,
                    ![i].appended = @ \o pushed]

(***************************************************************************)
(* Host signals                                                            *)
(***************************************************************************)
\* An operation that changes no variable of the program (a read, a signal
\* or a clearing without effect) leaves the program where it was, so every
\* run goes on from the state before it. The model records such an
\* operation and what it returned in a state of its own and continues from
\* the states that the operations with an effect reach.
AfterChange == last.changed

Opened(h, name) ==
  /\ AfterChange
  /\ LiveIndex(h) = 0 => Size < MaxSize
  /\ registerTerminal(h, name)
  /\ UNCHANGED outside
  /\ UNCHANGED <<maxBufferLines, clock, initialized, sockets>>
  /\ last' = Signal("opened", h)

Closed(h, name) ==
  /\ AfterChange
  /\ unregisterTerminal(h, name)
  /\ UNCHANGED outside
  /\ UNCHANGED <<maxBufferLines, clock, initialized, sockets>>
  /\ last' = Signal("closed", h)

DataWritten(h, data) ==
  /\ AfterChange
  /\ LiveIndex(h) # 0 => Size + Len(Pushed(data)) <= MaxSize
  /\ captureTerminalData(h, data)
  /\ UNCHANGED outside
  /\ UNCHANGED <<maxBufferLines, terminalToIdMap, terminalCounter, clock,
                 hist, initialized, sockets>>
  /\ last' = Signal("dataWritten", h)

(***************************************************************************)
(* TerminalBufferService: the public queries                               *)
(***************************************************************************)
\* Array.from(this.terminals.values())
getAllTerminals == terminals

\* the name is searched before the identifiers
getTerminalNameFirst(nameOrId) ==
  LET searchTerm == ToLowerCase(nameOrId)
      hits == {i \in 1..Len(terminals) :
                 Includes(ToLowerCase(terminals[i].name), searchTerm)}
  IN IF hits # {} THEN CHOOSE i \in hits : \A j \in hits : i <= j
     ELSE IF Has(terminals, nameOrId) THEN IndexOf(terminals, nameOrId)
     ELSE 0

\* the name is searched as it is written
getTerminalCaseSensitive(nameOrId) ==
  IF Has(terminals, nameOrId)
    THEN IndexOf(terminals, nameOrId)
    ELSE LET hits == {i \in 1..Len(terminals) :
                        Includes(terminals[i].name, nameOrId)}
         IN IF hits = {} THEN 0
            ELSE CHOOSE i \in hits : \A j \in hits : i <= j

\* the position in terminals of the TerminalData found, 0 for undefined
getTerminal(nameOrId) ==
  IF Has(terminals, nameOrId)
    THEN IndexOf(terminals, nameOrId)
    ELSE LET searchTerm == ToLowerCase(nameOrId)
             hits == {i \in 1..Len(terminals) :
                        Includes(ToLowerCase(terminals[i].name), searchTerm)}
         IN IF hits = {} THEN 0
            ELSE CHOOSE i \in hits : \A j \in hits : i <= j

\* the return value null
Null == [null |-> TRUE, text |-> <<>>]

Text(str) == [null |-> FALSE, text |-> str]

\* lines || buffer.length
RequestedLines(lines, buffer) ==
  IF lines = <<>> \/ lines[1] = 0 THEN Len(buffer) ELSE lines[1]

getTerminalBuffer(nameOrId, lines) ==
  LET i == getTerminal(nameOrId)
  IN IF i = 0 THEN Null
     ELSE LET buffer == terminals[i].buffer
              startIndex == Max(0, Len(buffer) - RequestedLines(lines, buffer))
          IN Text(Join(SliceFrom(buffer, startIndex), LF))

\* a clearing that empties every buffer once a session is found
clearTerminalBufferAll(nameOrId) ==
  IF getTerminal(nameOrId) # 0
    THEN terminals' = [i \in 1..Len(terminals) |->
                         [terminals[i] EXCEPT !.buffer = <<>>,
                                              !.appended = <<>>]]
    ELSE UNCHANGED terminals

\* what clearTerminalBuffer leaves in terminals
clearTerminalBuffer(nameOrId) ==
  LET i == getTerminal(nameOrId)
  IN IF i # 0
       THEN terminals' = [terminals EXCEPT ![i].buffer = <<>>,
                                           ![i].appended = <<>>]
       ELSE UNCHANGED terminals

(***************************************************************************)
(* MCPServer: the two tools                                                *)
(***************************************************************************)
DefaultLines == 100

Unnamed == <<40, 117, 110, 110, 97, 109, 101, 100, 41>>

\* 'terminal_name is required. Use list_terminals to see available terminals.'
RequiredError ==
  <<116, 101, 114, 109, 105, 110, 97, 108, 95, 110, 97, 109, 101, 32, 105,
    115, 32, 114, 101, 113, 117, 105, 114, 101, 100, 46, 32, 85, 115, 101,
    32, 108, 105, 115, 116, 95, 116, 101, 114, 109, 105, 110, 97, 108, 115,
    32, 116, 111, 32, 115, 101, 101, 32, 97, 118, 97, 105, 108, 97, 98, 108,
    101, 32, 116, 101, 114, 109, 105, 110, 97, 108, 115, 46>>

\* a message that reads `Terminal "${terminal_name}" is unknown`
NotFoundErrorUnknown(terminal_name) ==
  <<84, 101, 114, 109, 105, 110, 97, 108, 32, 34>> \o terminal_name
    \o <<34, 32, 105, 115, 32, 117, 110, 107, 110, 111, 119, 110>>

\* `Terminal "${terminal_name}" not found`
NotFoundError(terminal_name) ==
  <<84, 101, 114, 109, 105, 110, 97, 108, 32, 34>> \o terminal_name
    \o <<34, 32, 110, 111, 116, 32, 102, 111, 117, 110, 100>>

\* a || b that never falls back
OrElseFirst(a, b) == a

\* a || b on strings: the empty string is falsy
OrElse(a, b) == IF a # <<>> THEN a ELSE b

\* a summary that counts the lines ever appended, evicted ones included
listTerminalsAppended ==
  LET all == getAllTerminals
  IN [success |-> TRUE,
      count |-> Len(all),
      terminals |->
        [i \in 1..Len(all) |->
           [id |-> all[i].id,
            name |-> OrElse(all[i].name, Unnamed),
            processId |-> all[i].processId,
            bufferLines |-> Len(all[i].appended),
            lastActivity |-> all[i].lastActivity]]]

listTerminals ==
  LET all == getAllTerminals
  IN [success |-> TRUE,
      count |-> Len(all),
      terminals |->
        [i \in 1..Len(all) |->
           [id |-> all[i].id,
            name |-> OrElse(all[i].name, Unnamed),
            processId |-> all[i].processId,
            bufferLines |-> Len(all[i].buffer),
            lastActivity |-> all[i].lastActivity]]]

\* args is the arguments object: each field <<>> when absent, <<v>> when given
getTerminalOutput(args) ==
  LET lines == IF args.lines = <<>> THEN <<DefaultLines>> ELSE args.lines
  IN IF args.terminal_name = <<>> \/ args.terminal_name[1] = <<>>
       THEN [success |-> FALSE, error |-> RequiredError]
     ELSE LET terminal_name == args.terminal_name[1]
              i == getTerminal(terminal_name)
          IN IF i = 0
               THEN LET available == getAllTerminals
                    IN [success |-> FALSE,
                        error |-> NotFoundError(terminal_name),
                        available_terminals |->
                          [k \in 1..Len(available) |->
                             OrElse(available[k].name, available[k].id)]]
               ELSE LET buffer == getTerminalBuffer(terminal_name, lines).text
                    IN [success |-> TRUE,
                        terminal |-> OrElse(terminals[i].name, terminals[i].id),
                        output |-> buffer,
                        lines_returned |-> Len(Split(buffer, LF))]

(***************************************************************************)
(* MCPServer: the request router                                           *)
(***************************************************************************)
SERVER_NAME == "terminal-hook"

SERVER_VERSION == "1.0.0"

PROTOCOL_VERSION == "2024-11-05"

MethodNotFound == -32601

InternalError == -32603

ParseError == -32700

\* an object without properties
EmptyObject == <<>>

\* the value null of a response's id
NullId == "null"

\* a call that ends by throwing an exception with this message
Throw(message) == [throws |-> TRUE, message |-> message, value |-> <<>>]

\* a call that returns value: <<>> for null or no value
Return(value) == [throws |-> FALSE, message |-> "", value |-> value]

\* what a template literal makes of an optional text
Interpolate(opt) == IF opt = <<>> THEN "undefined" ELSE opt[1]

\* the message of the TypeError of destructuring undefined or null
CannotDestructure(property, of) ==
  <<"Cannot destructure property ", property, " of ", of>>

createResponse(id, result) ==
  [jsonrpc |-> "2.0", id |-> id, result |-> <<result>>, error |-> <<>>]

createErrorResponse(id, code, message) ==
  [jsonrpc |-> "2.0", id |-> id, result |-> <<>>,
   error |-> <<[code |-> code, message |-> message]>>]

handleInitialize(id) ==
  createResponse(id,
    [protocolVersion |-> PROTOCOL_VERSION,
     capabilities |-> [tools |-> EmptyObject],
     serverInfo |-> [name |-> SERVER_NAME, version |-> SERVER_VERSION]])

handleToolsList(id) ==
  createResponse(id,
    [tools |->
       <<[name |-> "list_terminals", properties |-> {}, required |-> {}],
         [name |-> "get_terminal_output",
          properties |-> {"terminal_name", "lines"},
          required |-> {"terminal_name"}]>>])

\* JSON.stringify(result, null, 2): a property whose value is undefined is
\* left out of the text
Stringify(result) ==
  IF "terminals" \in DOMAIN result
    THEN [json |->
            [result EXCEPT !.terminals =
               [i \in 1..Len(result.terminals) |->
                  IF result.terminals[i].processId = Undefined
                    THEN [f \in DOMAIN result.terminals[i] \ {"processId"} |->
                            result.terminals[i][f]]
                    ELSE result.terminals[i]]]]
    ELSE [json |-> result]

\* the switch inside the try block of handleToolsCall, for a declared tool:
\* args is <<>> when the params have no arguments, else <<object>>
toolResult(name, args) ==
  IF name = <<"list_terminals">>
    THEN Return(<<listTerminals>>)
  ELSE IF args = <<>>
    THEN Throw(CannotDestructure("terminal_name", "args"))
  ELSE Return(<<getTerminalOutput(args[1])>>)

\* handleToolsCall with a switch that has no default case: a name that is
\* not list_terminals runs get_terminal_output
handleToolsCallNoDefault(id, params) ==
  IF params = <<>>
    THEN Throw(CannotDestructure("name", "params"))
    ELSE LET result == toolResult(params[1].name, params[1].arguments)
         IN IF result.throws
              THEN Return(<<createErrorResponse(id, InternalError,
                     <<"Tool execution error: ", result.message>>)>>)
            ELSE Return(<<createResponse(id,
                   [content |-> <<[type |-> "text",
                                   text |-> Stringify(result.value[1])]>>])>>)

\* params is <<>> when the request has none, else <<object>>; the name and
\* the arguments of the object are optional in the same way
handleToolsCall(id, params) ==
  IF params = <<>>
    THEN Throw(CannotDestructure("name", "params"))
    ELSE LET name == params[1].name
             result == toolResult(name, params[1].arguments)
         IN IF name \notin {<<"list_terminals">>, <<"get_terminal_output">>}
              THEN Return(<<createErrorResponse(id, MethodNotFound,
                     <<"Unknown tool: ", Interpolate(name)>>)>>)
            ELSE IF result.throws
              THEN Return(<<createErrorResponse(id, InternalError,
                     <<"Tool execution error: ", result.message>>)>>)
            ELSE Return(<<createResponse(id,
                   [content |-> <<[type |-> "text",
                                   text |-> Stringify(result.value[1])]>>])>>)

\* request is a parsed JSON value; the value returned is <<>> for null
handleRequest(request) ==
  IF request.t = "null"
    THEN Throw(CannotDestructure("method", "request"))
  ELSE IF request.t # "object" \/ request.id = <<>>
    THEN Return(<<>>)
  ELSE LET id == request.id[1]
           method == request.method
       IN IF method = <<"initialize">>
            THEN Return(<<handleInitialize(id)>>)
          ELSE IF method = <<"ping">>
            THEN Return(<<createResponse(id, EmptyObject)>>)
          ELSE IF method = <<"tools/list">>
            THEN Return(<<handleToolsList(id)>>)
          ELSE IF method = <<"tools/call">>
            THEN handleToolsCall(id, request.params)
          ELSE IF method = <<"resources/list">>
            THEN Return(<<createResponse(id, [resources |-> <<>>])>>)
          ELSE IF method = <<"prompts/list">>
            THEN Return(<<createResponse(id, [prompts |-> <<>>])>>)
          ELSE Return(<<createErrorResponse(id, MethodNotFound,
                 <<"Method not found: ", Interpolate(method)>>)>>)

\* MCPServer.initialized after handleRequest(request), flag before it
handleNotification(request, flag) ==
  \/ flag
  \/ /\ request.t = "object"
     /\ request.id = <<>>
     /\ request.method = <<"notifications/initialized">>

(***************************************************************************)
(* Calls of the service and of the tools                                   *)
(***************************************************************************)
\* the texts a caller asks for: names, identifiers handed out, and others
Queries ==
  UNION {NamesOf(h) : h \in Handles} \cup ExtraQueries
    \cup {hist[o].id : o \in 1..Len(hist)}

GetTerminal(q) ==
  /\ AfterChange
  /\ last' = [op |-> "getTerminal", q |-> q, res |-> getTerminal(q),
              changed |-> FALSE]
  /\ UNCHANGED outside
  /\ UNCHANGED <<maxBufferLines, terminals, terminalToIdMap, terminalCounter,
                 clock, hist, initialized, sockets>>

GetTerminalBuffer(q, lines) ==
  /\ AfterChange
  /\ last' = [op |-> "getTerminalBuffer", q |-> q, lines |-> lines,
              res |-> getTerminalBuffer(q, lines), changed |-> FALSE]
  /\ UNCHANGED outside
  /\ UNCHANGED <<maxBufferLines, terminals, terminalToIdMap, terminalCounter,
                 clock, hist, initialized, sockets>>

ClearTerminalBuffer(q) ==
  /\ AfterChange
  /\ clearTerminalBuffer(q)
  /\ UNCHANGED outside
  /\ UNCHANGED <<maxBufferLines, terminalToIdMap, terminalCounter, clock,
                 hist, initialized, sockets>>
  /\ last' = [op |-> "clearTerminalBuffer", q |-> q,
              res |-> getTerminal(q) # 0,
              dropped |-> IF getTerminal(q) = 0 THEN 0
                          ELSE Len(terminals[getTerminal(q)].buffer),
              changed |-> Changed]

ListTerminals ==
  /\ AfterChange
  /\ last' = [op |-> "list_terminals", res |-> listTerminals,
              changed |-> FALSE]
  /\ UNCHANGED outside
  /\ UNCHANGED <<maxBufferLines, terminals, terminalToIdMap, terminalCounter,
                 clock, hist, initialized, sockets>>

GetTerminalOutput(args) ==
  /\ AfterChange
  /\ last' = [op |-> "get_terminal_output", args |-> args,
              res |-> getTerminalOutput(args), changed |-> FALSE]
  /\ UNCHANGED outside
  /\ UNCHANGED <<maxBufferLines, terminals, terminalToIdMap, terminalCounter,
                 clock, hist, initialized, sockets>>

Tick ==
  /\ AfterChange
  /\ Size < MaxSize
  /\ clock' = clock + 1
  /\ last' = [op |-> "tick", changed |-> TRUE]
  /\ UNCHANGED outside
  /\ UNCHANGED <<maxBufferLines, terminals, terminalToIdMap, terminalCounter,
                 hist, initialized, sockets>>

Next ==
  \/ \E h \in Handles : \E name \in NamesOf(h) : Opened(h, name)
  \/ \E h \in Handles : \E name \in NamesOf(h) : Closed(h, name)
  \/ \E h \in Handles, data \in Chunks : DataWritten(h, data)
  \/ Tick
  \/ \E q \in Queries : GetTerminal(q)
  \/ \E q \in Queries, lines \in LinesArgs : GetTerminalBuffer(q, lines)
  \/ \E q \in Queries : ClearTerminalBuffer(q)
  \/ ListTerminals
  \/ \E name \in {<<>>} \cup {<<q>> : q \in Queries \cup {<<>>}},
        lines \in LinesArgs :
       GetTerminalOutput([terminal_name |-> name, lines |-> lines])

Spec == Init /\ [][Next]_vars

(***************************************************************************)
(* The two tools over sessions with and without a display name             *)
(***************************************************************************)
\* the display names of a handle here: the terminal of h2 may have none
ToolNamesOf(h) == IF h = "h2" THEN NamesOf(h) \cup {<<>>} ELSE NamesOf(h)

ToolNext ==
  \/ \E h \in Handles : \E name \in ToolNamesOf(h) : Opened(h, name)
  \/ \E h \in Handles : \E name \in ToolNamesOf(h) : Closed(h, name)
  \/ \E h \in Handles, data \in Chunks : DataWritten(h, data)
  \/ ListTerminals
  \/ \E name \in {<<>>} \cup {<<q>> : q \in Queries \cup {<<>>}},
        lines \in LinesArgs :
       GetTerminalOutput([terminal_name |-> name, lines |-> lines])

ToolSpec == Init /\ [][ToolNext]_vars

(***************************************************************************)
(* extension.ts: the listener on port 9876                                 *)
(***************************************************************************)
Request(id, method, params) ==
  [t |-> "object", id |-> id, method |-> method, params |-> params]

\* the params of a tools/call request
Call(name, arguments) == <<[name |-> name, arguments |-> arguments]>>

\* the arguments of a get_terminal_output call
Arguments(terminal_name) ==
  <<[terminal_name |-> terminal_name, lines |-> <<>>]>>

\* the JSON objects a client sends, with the id "1" or "2" or without an id
Frames ==
  <<Request(<<"1">>, <<"initialize">>, <<>>),
    Request(<<"1">>, <<"ping">>, <<>>),
    Request(<<"1">>, <<"tools/list">>, <<>>),
    Request(<<"1">>, <<"resources/list">>, <<>>),
    Request(<<"1">>, <<"prompts/list">>, <<>>),
    Request(<<"2">>, <<"foo">>, <<>>),
    Request(<<"1">>, <<>>, <<>>),
    Request(<<"1">>, <<"tools/call">>, <<>>),
    Request(<<"1">>, <<"tools/call">>, Call(<<>>, <<>>)),
    Request(<<"1">>, <<"tools/call">>, Call(<<"list_terminals">>, <<>>)),
    Request(<<"1">>, <<"tools/call">>, Call(<<"get_terminal_output">>, <<>>)),
    Request(<<"1">>, <<"tools/call">>,
            Call(<<"get_terminal_output">>, Arguments(<<>>))),
    Request(<<"1">>, <<"tools/call">>,
            Call(<<"get_terminal_output">>, Arguments(<<(<<98>>)>>))),
    Request(<<"1">>, <<"tools/call">>,
            Call(<<"get_terminal_output">>, Arguments(<<(<<120>>)>>))),
    Request(<<"1">>, <<"tools/call">>, Call(<<"foo">>, Arguments(<<>>))),
    Request(<<"2">>, <<"ping">>, <<>>),
    Request(<<>>, <<"notifications/initialized">>, <<>>),
    Request(<<>>, <<"initialize">>, <<>>),
    Request(<<>>, <<"tools/call">>, <<>>),
    Request(<<>>, <<"tools/call">>, Call(<<"get_terminal_output">>, <<>>)),
    Request(<<>>, <<"foo">>, <<>>),
    Request(<<>>, <<>>, <<>>)>>

\* The text of a frame is written as two stretches of characters, its first
\* and its second half; a number from TextBase on stands for a stretch.
TextBase == 1000

FrameText(k) == <<TextBase + 2 * k, TextBase + 2 * k + 1>>

\* the texts "x", "5", "null" and " "
Garbage == <<120>>

NumberText == <<53>>

NullText == <<110, 117, 108, 108>>

Blank == <<SP>>

\* JSON.parse(line)
JSONparse(line) ==
  LET text == Trim(line)
      k == IF text = <<>> THEN 0 ELSE (text[1] - TextBase) \div 2
  IN IF k \in 1..Len(Frames) /\ text = FrameText(k)
       THEN Return(<<Frames[k]>>)
     ELSE IF text = NullText
       THEN Return(<<[t |-> "null"]>>)
     ELSE IF text # <<>> /\ \A i \in 1..Len(text) : text[i] \in 48..57
       THEN Return(<<[t |-> "number"]>>)
     ELSE Throw("Unexpected token")

\* line => line.trim()
NonBlank(line) == Trim(line) # <<>>

\* the response written in the catch block of the 'data' handler
ParseErrorResponse(message) ==
  [jsonrpc |-> "2.0", id |-> NullId, result |-> <<>>,
   error |-> <<[code |-> ParseError,
                message |-> <<"Parse error: ", message>>]>>]

\* the value of the only element of a set: an expression put in a set is
\* computed once, however often its value is used
Only(S) == CHOOSE x \in S : TRUE

\* a turn of the loop in which a request that is not initialize is refused
\* until notifications/initialized was received
HandleLineGated(line, flag) ==
  Only({LET handled == IF parsed.throws THEN parsed
                       ELSE Only({handleRequest(request) :
                                    request \in {parsed.value[1]}})
            gated == /\ ~parsed.throws
                     /\ ~flag
                     /\ parsed.value[1].t = "object"
                     /\ parsed.value[1].id # <<>>
                     /\ parsed.value[1].method # <<"initialize">>
        IN [writes |-> IF gated
                         THEN <<createErrorResponse(parsed.value[1].id[1],
                                  -32002, <<"Server not initialized">>)>>
                       ELSE IF handled.throws
                         THEN <<ParseErrorResponse(handled.message)>>
                         ELSE handled.value,
            initialized |-> IF parsed.throws THEN flag
                            ELSE handleNotification(parsed.value[1], flag)] :
        parsed \in {JSONparse(line)}})

\* one turn of the for loop of the 'data' handler: the response it writes,
\* if any, and MCPServer.initialized after it
HandleLine(line, flag) ==
  Only({LET handled == IF parsed.throws THEN parsed
                       ELSE Only({handleRequest(request) :
                                    request \in {parsed.value[1]}})
        IN [writes |-> IF handled.throws
                         THEN <<ParseErrorResponse(handled.message)>>
                         ELSE handled.value,
            initialized |-> IF parsed.throws THEN flag
                            ELSE handleNotification(parsed.value[1], flag)] :
        parsed \in {JSONparse(line)}})

\* the for loop of the 'data' handler over lines: the responses it writes,
\* in order, and MCPServer.initialized after it
RECURSIVE HandleLines(_, _)
HandleLines(lines, flag) ==
  IF lines = <<>>
    THEN [writes |-> <<>>, initialized |-> flag]
    ELSE Only({Only({[writes |-> first.writes \o rest.writes,
                      initialized |-> rest.initialized] :
                       rest \in {HandleLines(Tail(lines), first.initialized)}}) :
               first \in {HandleLine(Head(lines), flag)}})

\* socket.on('data', ...): data.toString().split('\n').filter(...)
onData(data) ==
  Only({HandleLines(lines, initialized) :
          lines \in {SelectSeq(Split(data, LF), NonBlank)}})

\* the kinds of error response among writes: "method" for a method that was
\* not found, "parse" for a parse error
FaultsOf(writes) ==
  {"method" : i \in {j \in 1..Len(writes) :
                       /\ writes[j].error # <<>>
                       /\ writes[j].error[1].code = MethodNotFound
                       /\ writes[j].error[1].message[1] = "Method not found: "}}
    \cup {"parse" : i \in {j \in 1..Len(writes) :
                             /\ writes[j].error # <<>>
                             /\ writes[j].error[1].code = ParseError}}

\* the characters received on a connection since its last newline
Partial(text) == Split(text, LF)[Len(Split(text, LF))]

\* the frames whose text may reach the handler in two reads
SplitFrames == {2, 6, 17}

\* the lines a client writes: every frame, and texts that are no frame
ClientLines ==
  {FrameText(k) : k \in 1..Len(Frames)}
    \cup {Garbage, NumberText, NullText, Blank}

\* the lines that may share a read with another line
PairLines == {FrameText(6), Garbage}

\* what one read can deliver on connection c: a line with its newline, two
\* lines, the first half of a frame, or, after a first half, the rest of it
Reads(c) ==
  IF sockets[c].partial = <<>>
    THEN {line \o <<LF>> : line \in ClientLines}
           \cup {a \o <<LF>> \o b \o <<LF>> : a, b \in PairLines}
           \cup {<<FrameText(k)[1]>> : k \in SplitFrames}
    ELSE {<<FrameText(k)[2], LF>> :
            k \in {n \in SplitFrames : sockets[c].partial = <<FrameText(n)[1]>>}}

\* net.createServer((socket) => ...): a client connects
Connect(c) ==
  /\ AfterChange
  /\ listening # <<>>
  /\ sockets[c].state = "NONE"
  /\ sockets' = [sockets EXCEPT ![c].state = "OPEN"]
  /\ last' = [op |-> "connect", c |-> c, changed |-> TRUE]
  /\ UNCHANGED outside
  /\ UNCHANGED <<maxBufferLines, terminals, terminalToIdMap, terminalCounter,
                 clock, hist, initialized>>

\* a 'data' handler whose tools take the lines they return out of the
\* buffers
OnDataDraining(c, data) ==
  /\ AfterChange
  /\ sockets[c].state = "OPEN"
  /\ \E done \in {onData(data)} :
       /\ initialized' = done.initialized
       /\ sockets' = [sockets EXCEPT
                        ![c].partial = Partial(@ \o data),
                        ![c].faults = @ \cup FaultsOf(done.writes)]
       /\ terminals' =
            IF \E w \in 1..Len(done.writes) :
                 /\ done.writes[w].result # <<>>
                 /\ "content" \in DOMAIN done.writes[w].result[1]
              THEN [i \in 1..Len(terminals) |->
                      [terminals[i] EXCEPT !.buffer = <<>>]]
              ELSE terminals
       /\ last' = [op |-> "data", c |-> c, data |-> data,
                   before |-> sockets[c].partial,
                   faults |-> sockets[c].faults,
                   writes |-> done.writes,
                   changed |-> TRUE]
  /\ UNCHANGED outside
  /\ UNCHANGED <<maxBufferLines, terminalToIdMap, terminalCounter, clock,
                 hist>>

OnData(c, data) ==
  /\ AfterChange
  /\ sockets[c].state = "OPEN"
  /\ \E done \in {onData(data)} :
       /\ initialized' = done.initialized
       /\ sockets' = [sockets EXCEPT
                        ![c].partial = Partial(@ \o data),
                        ![c].faults = @ \cup FaultsOf(done.writes)]
       /\ last' = [op |-> "data", c |-> c, data |-> data,
                   before |-> sockets[c].partial,
                   faults |-> sockets[c].faults,
                   writes |-> done.writes,
                   changed |-> initialized' # initialized
                                 \/ sockets' # sockets]
  /\ UNCHANGED outside
  /\ UNCHANGED <<maxBufferLines, terminals, terminalToIdMap, terminalCounter,
                 clock, hist>>

\* an 'error' handler that closes the server
OnErrorCloseServer(c) ==
  /\ AfterChange
  /\ sockets[c].state = "OPEN"
  /\ sockets' = [sockets EXCEPT ![c] = ClosedSocket]
  /\ listening' = <<>>
  /\ last' = [op |-> "error", c |-> c, changed |-> TRUE]
  /\ UNCHANGED <<maxBufferLines, terminals, terminalToIdMap, terminalCounter,
                 clock, hist, initialized, chunk, disposables, subscriptions,
                 env, calls, links>>

\* socket.on('error', ...): the handler logs, the socket is destroyed
OnError(c) ==
  /\ AfterChange
  /\ sockets[c].state = "OPEN"
  /\ sockets' = [sockets EXCEPT ![c] = ClosedSocket]
  /\ last' = [op |-> "error", c |-> c, changed |-> TRUE]
  /\ UNCHANGED outside
  /\ UNCHANGED <<maxBufferLines, terminals, terminalToIdMap, terminalCounter,
                 clock, hist, initialized>>

\* socket.on('close', ...): the peer has disconnected
OnClose(c) ==
  /\ AfterChange
  /\ sockets[c].state = "OPEN"
  /\ sockets' = [sockets EXCEPT ![c] = ClosedSocket]
  /\ last' = [op |-> "close", c |-> c, changed |-> TRUE]
  /\ UNCHANGED outside
  /\ UNCHANGED <<maxBufferLines, terminals, terminalToIdMap, terminalCounter,
                 clock, hist, initialized>>

BridgeNext ==
  \/ \E h \in Handles : \E name \in NamesOf(h) :
       Size < MaxHost /\ Opened(h, name)
  \/ \E h \in Handles :
       Size < MaxHost /\ DataWritten(h, <<120, LF>>)
  \/ \E c \in Conns : Connect(c)
  \/ \E c \in Conns : \E data \in Reads(c) : OnData(c, data)
  \/ \E c \in Conns : OnError(c)
  \/ \E c \in Conns : OnClose(c)

\* the listener starts over a service made with the largest capacity
BridgeInit == Init /\ maxBufferLines = MaxCap

BridgeSpec == BridgeInit /\ [][BridgeNext]_vars

(***************************************************************************)
(* stripAnsiCodes over raw chunks                                          *)
(***************************************************************************)
\* stripAnsiCodes(chunk)
Strip ==
  /\ AfterChange
  /\ chunk.out = <<>>
  /\ chunk' = [chunk EXCEPT !.out = <<stripAnsiCodes(chunk.raw)>>]
  /\ UNCHANGED <<disposables, subscriptions, listening, env, calls, links>>
  /\ UNCHANGED <<maxBufferLines, terminals, terminalToIdMap, terminalCounter,
                 clock, hist, initialized, sockets, last>>

\* stripAnsiCodes(stripAnsiCodes(chunk))
StripAgain ==
  /\ AfterChange
  /\ chunk.out # <<>>
  /\ chunk.again = <<>>
  /\ chunk' = [chunk EXCEPT !.again = <<stripAnsiCodes(chunk.out[1])>>]
  /\ UNCHANGED <<disposables, subscriptions, listening, env, calls, links>>
  /\ UNCHANGED <<maxBufferLines, terminals, terminalToIdMap, terminalCounter,
                 clock, hist, initialized, sockets, last>>

\* a terminal is opened and the host delivers the chunk to it, any number of
\* times
StripNext ==
  \/ \E name \in NamesOf("h1") : Opened("h1", name)
  \/ DataWritten("h1", chunk.raw)
  \/ Strip
  \/ StripAgain

StripInit ==
  /\ Created
  /\ NoProxy
  /\ maxBufferLines = MaxCap
  /\ chunk \in {[raw |-> x, out |-> <<>>, again |-> <<>>] : x \in RawChunks}

StripSpec == StripInit /\ [][StripNext]_vars

(***************************************************************************)
(* initialize and dispose                                                  *)
(***************************************************************************)
\* subscriptions after d.dispose() for every element d of ds
RECURSIVE DisposeAll(_, _)
DisposeAll(ds, subs) ==
  IF ds = <<>> THEN subs
  ELSE DisposeAll(Tail(ds),
                  [subs EXCEPT ![Head(ds)].live = FALSE,
                               ![Head(ds)].released = @ + 1])

\* dispose that keeps the list of disposables
DisposeKeepList ==
  /\ AfterChange
  /\ subscriptions' = DisposeAll(disposables, subscriptions)
  /\ terminals' = <<>>
  /\ last' = [op |-> "dispose",
              changed |-> <<subscriptions, terminals>>'
                            # <<subscriptions, terminals>>]
  /\ UNCHANGED <<maxBufferLines, terminalToIdMap, terminalCounter, clock, hist,
                 initialized, sockets, chunk, disposables, listening, env,
                 calls, links>>

\* TerminalBufferService.dispose()
Dispose ==
  /\ AfterChange
  /\ subscriptions' = DisposeAll(disposables, subscriptions)
  /\ disposables' = <<>>
  /\ terminals' = <<>>
  /\ last' = [op |-> "dispose",
              changed |-> <<subscriptions, disposables, terminals>>'
                            # <<subscriptions, disposables, terminals>>]
  /\ UNCHANGED <<maxBufferLines, terminalToIdMap, terminalCounter, clock, hist,
                 initialized, sockets, chunk, listening, env, calls, links>>

\* the host fires an event that has no listener: nothing runs
Unheard(e) ==
  /\ AfterChange
  /\ ~subscriptions[e].live
  /\ last' = [op |-> e, heard |-> FALSE, changed |-> FALSE]
  /\ UNCHANGED <<maxBufferLines, terminals, terminalToIdMap, terminalCounter,
                 clock, hist, initialized, sockets, outside>>

\* the host fires its events, to the listeners it has, and the extension is
\* disposed of, any number of times
LifeNext ==
  \/ \E h \in Handles : \E name \in NamesOf(h) :
       subscriptions["opened"].live /\ Opened(h, name)
  \/ \E h \in Handles : \E name \in NamesOf(h) :
       subscriptions["closed"].live /\ Closed(h, name)
  \/ \E h \in Handles, data \in Chunks :
       subscriptions["dataWritten"].live /\ DataWritten(h, data)
  \/ \E e \in {"opened", "closed", "dataWritten"} : Unheard(e)
  \/ Dispose

\* initialize has run on a host with or without onDidWriteTerminalData
LifeInit ==
  /\ Created
  /\ chunk = NoChunk
  /\ \E n \in {2, 3} : Subscribed(n)
  /\ listening = <<port>>
  /\ env = <<>>
  /\ calls = [r \in Calls |-> NoCall]
  /\ links = <<>>

LifeSpec == LifeInit /\ [][LifeNext]_vars

(***************************************************************************)
(* registerTerminal: terminal.processId.then(...)                          *)
(***************************************************************************)
\* the process ids the host resolves
Pids == {"4001", "4002"}

\* a callback that looks the session up by its identifier when it runs
resolveProcessIdById(o, pid) ==
  terminals' =
    IF Has(terminals, hist[o].id)
      THEN [terminals EXCEPT ![IndexOf(terminals, hist[o].id)].processId = pid]
      ELSE terminals

\* pid => { terminalData.processId = pid; } for the TerminalData object o
\* that registerTerminal created: the callback holds the object itself, and
\* an object that is no longer in the Map is one the program cannot reach
resolveProcessId(o, pid) ==
  terminals' =
    [i \in 1..Len(terminals) |->
       IF terminals[i].obj = o
         THEN [terminals[i] EXCEPT !.processId = pid]
         ELSE terminals[i]]

\* the promise terminal.processId of object o's terminal resolves with pid
\* and the callback registered for o runs, once
ProcessIdResolved(o, pid) ==
  /\ AfterChange
  /\ \A i \in 1..Len(terminals) :
       terminals[i].obj = o => terminals[i].processId = Undefined
  /\ resolveProcessId(o, pid)
  /\ UNCHANGED outside
  /\ UNCHANGED <<maxBufferLines, terminalToIdMap, terminalCounter, clock,
                 hist, initialized, sockets>>
  /\ last' = [op |-> "processId", obj |-> o, pid |-> pid,
              changed |-> Changed]

\* host signals, and the resolutions completing at any time after the
\* opened signal that started them
PidNext ==
  \/ \E h \in Handles : \E name \in NamesOf(h) : Opened(h, name)
  \/ \E h \in Handles : \E name \in NamesOf(h) : Closed(h, name)
  \/ \E h \in Handles, data \in Chunks : DataWritten(h, data)
  \/ \E o \in 1..Len(hist), pid \in Pids : ProcessIdResolved(o, pid)

PidSpec == Init /\ [][PidNext]_vars

(***************************************************************************)
(* mcp-server.mjs: the proxy between the client and the listener           *)
(***************************************************************************)
\* the variables of the service and of the listener's connections
served ==
  <<maxBufferLines, terminals, terminalToIdMap, terminalCounter, clock, hist,
    initialized, sockets, chunk, disposables, subscriptions, last>>

\* what parseInt returns for a text that does not start with a number
NaN == -1

\* the number that the decimal digits s write
RECURSIVE DigitsValue(_)
DigitsValue(s) ==
  IF s = <<>> THEN 0
  ELSE 10 * DigitsValue(SubSeq(s, 1, Len(s) - 1)) + (s[Len(s)] - 48)

\* parseInt(s, 10) for a text without a sign
parseInt(s) ==
  LET t == TrimStart(s)
      p == SkipClass(t, 1, 48..57)
  IN IF p = 1 THEN NaN ELSE DigitsValue(SubSeq(t, 1, p - 1))

\* parseInt(process.env.VSCODE_TERMINAL_MCP_PORT || '9876', 10)
EXTENSION_PORT ==
  parseInt(IF env = <<>> \/ env[1] = <<>> THEN <<57, 56, 55, 54>> ELSE env[1])

\* the settings of the variable: unset, "", "9876", "9877" and "x"
EnvValues ==
  {<<>>, <<(<<>>)>>, <<(<<57, 56, 55, 54>>)>>, <<(<<57, 56, 55, 55>>)>>,
   <<(<<120>>)>>}

\* the frame callExtensionTool builds for a call: r1 is list_terminals,
\* r2 is get_terminal_output of "x" with the default number of lines
FrameOf(r) == IF r = "r1" THEN 10 ELSE 14

\* The text of a response is written, like the text of a frame, as two
\* stretches of characters; a number from ResponseBase on stands for a
\* stretch of the response to a frame.
ResponseBase == 2000

ResponseText(k) == <<ResponseBase + 2 * k, ResponseBase + 2 * k + 1>>

\* a character outside ASCII that UTF-8 writes as two bytes
IsWide(c) == c \in 128..999

\* U+FFFD, which Buffer.toString() puts for bytes that are no character
Replacement == 65533

\* the characters outside ASCII of the texts in a response, in order: the
\* identifier and the name of every terminal that a list_terminals result
\* lists
RECURSIVE WideOfTerminals(_)
WideOfTerminals(ts) ==
  IF ts = <<>> THEN <<>>
  ELSE SelectSeq(Head(ts).id, IsWide) \o SelectSeq(Head(ts).name, IsWide)
         \o WideOfTerminals(Tail(ts))

WideOf(response) ==
  IF /\ response.result # <<>>
     /\ "content" \in DOMAIN response.result[1]
     /\ "terminals" \in DOMAIN response.result[1].content[1].text.json
    THEN WideOfTerminals(response.result[1].content[1].text.json.terminals)
    ELSE <<>>

\* JSON.stringify(response) for the response to frame k: its two stretches
\* of ASCII characters and, between them, its characters outside ASCII
ResponseChars(k, response) ==
  <<ResponseText(k)[1]>> \o WideOf(response) \o <<ResponseText(k)[2]>>

\* socket.write(string): the UTF-8 bytes of the string
RECURSIVE Utf8(_)
Utf8(str) ==
  IF str = <<>> THEN <<>>
  ELSE (IF IsWide(Head(str))
          THEN <<192 + (Head(str) \div 64), 128 + (Head(str) % 64)>>
          ELSE <<Head(str)>>) \o Utf8(Tail(str))

\* chunk.toString(): the bytes of one chunk decoded as UTF-8; a first byte
\* without its second byte and a second byte without its first each become
\* U+FFFD
toString(bytes) ==
  LET F[i \in 0..Len(bytes)] ==
        IF i = 0 THEN <<>>
        ELSE IF bytes[i] \in 192..223
          THEN IF i < Len(bytes) /\ bytes[i + 1] \in 128..191
                 THEN F[i - 1]
                 ELSE Append(F[i - 1], Replacement)
        ELSE IF bytes[i] \in 128..191
          THEN IF i > 1 /\ bytes[i - 1] \in 192..223
                 THEN Append(F[i - 1],
                             (bytes[i - 1] - 192) * 64 + (bytes[i] - 128))
                 ELSE Append(F[i - 1], Replacement)
        ELSE Append(F[i - 1], bytes[i])
  IN F[Len(bytes)]

\* what the characters chars can have become after the chunks holding their
\* bytes were decoded one by one: each is itself or, cut in two, U+FFFD twice
RECURSIVE Decodings(_)
Decodings(chars) ==
  IF chars = <<>> THEN {<<>>}
  ELSE {<<Head(chars)>> \o rest : rest \in Decodings(Tail(chars))}
         \cup {<<Replacement, Replacement>> \o rest :
                 rest \in Decodings(Tail(chars))}

\* the text str with its characters outside ASCII taken from read, and
\* what is left of read
RECURSIVE Reread(_, _)
Reread(str, read) ==
  IF str = <<>> THEN [text |-> <<>>, rest |-> read]
  ELSE IF ~IsWide(Head(str))
    THEN LET r == Reread(Tail(str), read)
         IN [text |-> <<Head(str)>> \o r.text, rest |-> r.rest]
  ELSE LET n == IF Head(read) = Replacement THEN 2 ELSE 1
           r == Reread(Tail(str), SubSeq(read, n + 1, Len(read)))
       IN [text |-> SubSeq(read, 1, n) \o r.text, rest |-> r.rest]

RECURSIVE RereadTerminals(_, _)
RereadTerminals(ts, read) ==
  IF ts = <<>> THEN <<>>
  ELSE LET id == Reread(Head(ts).id, read)
           name == Reread(Head(ts).name, id.rest)
       IN <<[Head(ts) EXCEPT !.id = id.text, !.name = name.text]>>
            \o RereadTerminals(Tail(ts), name.rest)

\* the object JSON.parse returns for the text of response in which the
\* characters outside ASCII read as read
Reparsed(response, read) ==
  IF read = WideOf(response) THEN response
  ELSE [response EXCEPT
          !.result[1].content[1].text.json.terminals =
            RereadTerminals(@, read)]

\* new Error(message)
Error(message) == [message |-> message]

\* a socket made by net.createConnection for call r: the frames written on
\* it, what the listener has written and the proxy has not read (wire), the
\* object that text stands for (sent), and the proxy's data
Link(r) ==
  [call |-> r, port |-> EXTENSION_PORT, state |-> "connecting",
   frames |-> <<>>, wire |-> <<>>, sent |-> <<>>, data |-> <<>>,
   timer |-> TRUE]

\* JSON.parse(line) on the socket link
ParseResponse(line, link) ==
  Only({IF /\ link.sent # <<>>
           /\ Len(text) >= 2
           /\ <<text[1], text[Len(text)]>> = ResponseText(link.frames[1])
           /\ SubSeq(text, 2, Len(text) - 1)
                \in Decodings(WideOf(link.sent[1]))
          THEN Return(<<Reparsed(link.sent[1],
                                 SubSeq(text, 2, Len(text) - 1))>>)
          ELSE Throw("Unexpected token") :
        text \in {Trim(line)}})

\* the for loop of the proxy's 'data' handler: <<>>, or <<response>> for the
\* first line that is not blank and that JSON.parse accepts
RECURSIVE FirstResponse(_, _)
FirstResponse(lines, link) ==
  IF lines = <<>> THEN <<>>
  ELSE IF NonBlank(Head(lines)) /\ ~ParseResponse(Head(lines), link).throws
    THEN ParseResponse(Head(lines), link).value
  ELSE FirstResponse(Tail(lines), link)

\* the 'data' handler that does not end the socket
proxyOnDataKeepOpen(link, data) ==
  Only({[link |-> [link EXCEPT !.data = read],
         response |-> FirstResponse(Split(read, LF), link)] :
        read \in {link.data \o toString(data)}})

\* socket.on('data', (chunk) => ...) of sendToExtension: the socket after
\* it, and <<response>> when it called resolve
proxyOnData(link, data) ==
  Only({Only({[link |-> [link EXCEPT
                           !.data = read,
                           !.state = IF found # <<>> THEN "ended" ELSE @],
               response |-> found] :
              found \in {FirstResponse(Split(read, LF), link)}}) :
        read \in {link.data \o toString(data)}})

\* resolve(value) and reject(value): a promise is settled once
Settle(call, state, value) ==
  IF call.state = "pending"
    THEN [call EXCEPT !.state = state, !.value = <<value>>]
    ELSE call

\* what the tool handler returns from its catch block
Failure(error) ==
  [isError |-> TRUE,
   text |-> [json |-> [success |-> FALSE, error |-> error.message,
                       hint |-> "Make sure the Terminal Hook extension is running in VSCode/Cursor"]]]

\* callExtensionTool after sendToExtension, inside the try block of the
\* tool handler
toolHandler(call) ==
  IF call.state = "rejected" THEN Failure(call.value[1])
  ELSE IF call.value[1].error # <<>>
    THEN Failure(Error(call.value[1].error[1].message))
  ELSE [isError |-> FALSE,
        text |-> [json |-> call.value[1].result[1].content[1].text.json]]

\* activate: startMCPServer listens on 127.0.0.1
Listen ==
  /\ listening = <<>>
  /\ listening' = <<port>>
  /\ UNCHANGED <<env, calls, links, served>>

\* the dispose of the extension: server.close()
Shutdown ==
  /\ listening # <<>>
  /\ listening' = <<>>
  /\ UNCHANGED <<env, calls, links, served>>

\* a tool handler calls callExtensionTool, which calls sendToExtension;
\* net.createConnection throws for a port that is not a number
SendToExtension(r) ==
  /\ calls[r].state = "idle"
  /\ IF EXTENSION_PORT = NaN
       THEN /\ calls' = [calls EXCEPT
                           ![r] = [@ EXCEPT !.state = "rejected",
                                            !.value = <<Error(<<"Port should be >= 0 and < 65536">>)>>]]
            /\ UNCHANGED links
       ELSE /\ calls' = [calls EXCEPT ![r].state = "pending"]
            /\ links' = Append(links, Link(r))
  /\ UNCHANGED <<listening, env, served>>

\* the callback of net.createConnection: the socket is connected
OnConnect(i) ==
  /\ links[i].state = "connecting"
  /\ listening = <<links[i].port>>
  /\ links' = [links EXCEPT ![i].state = "open",
                            ![i].frames = Append(@, FrameOf(links[i].call))]
  /\ UNCHANGED <<listening, env, calls, served>>

\* socket.on('error', ...): the connection is refused, or it is reset
OnSocketError(i) ==
  /\ \/ links[i].state = "connecting" /\ listening # <<links[i].port>>
     \/ links[i].state \in {"open", "ended"}
  /\ links' = [links EXCEPT ![i].state = "closed", ![i].timer = FALSE,
                            ![i].wire = <<>>]
  /\ calls' = [calls EXCEPT
                 ![links[i].call] =
                   Settle(@, "rejected",
                          Error(<<"Failed to connect to VSCode extension: ",
                                  IF links[i].state = "connecting"
                                    THEN "ECONNREFUSED" ELSE "ECONNRESET",
                                  ". Make sure the extension is running.">>))]
  /\ UNCHANGED <<listening, env, served>>

\* the listener's 'data' handler reads the frame and writes what
\* handleRequest returned
BridgeAnswer(i) ==
  /\ links[i].state \in {"open", "ended"}
  /\ links[i].sent = <<>>
  /\ \E done \in {onData(FrameText(links[i].frames[1]) \o <<LF>>)} :
       /\ done.writes # <<>>
       /\ links' = [links EXCEPT
                      ![i].sent = <<done.writes[1]>>,
                      ![i].wire =
                        Utf8(ResponseChars(links[i].frames[1],
                                           done.writes[1])) \o <<LF>>]
  /\ UNCHANGED <<listening, env, calls, served>>

\* socket.on('data', ...): the proxy reads the first n characters written
ProxyOnData(i, n) ==
  /\ links[i].state \in {"open", "ended"}
  /\ n \in 1..Len(links[i].wire)
  /\ \E done \in {proxyOnData(links[i], SubSeq(links[i].wire, 1, n))} :
       /\ links' = [links EXCEPT
                      ![i] = [done.link EXCEPT
                                !.wire = SubSeq(@, n + 1, Len(@))]]
       /\ calls' = IF done.response = <<>> THEN calls
                   ELSE [calls EXCEPT
                           ![links[i].call] =
                             Settle(@, "fulfilled", done.response[1])]
  /\ UNCHANGED <<listening, env, served>>

\* socket.on('timeout', ...): nothing was read or written for 5000 ms
OnTimeout(i) ==
  /\ links[i].timer
  /\ links' = [links EXCEPT ![i].state = "closed", ![i].timer = FALSE,
                            ![i].wire = <<>>]
  /\ calls' = [calls EXCEPT
                 ![links[i].call] =
                   Settle(@, "rejected",
                          Error(<<"Connection to VSCode extension timed out">>))]
  /\ UNCHANGED <<listening, env, served>>

\* the other end closes the connection after all it wrote was read: the
\* socket emits 'end' and 'close', for which sendToExtension has no
\* handler, and its timer is cleared
PeerEnd(i) ==
  /\ links[i].state \in {"open", "ended"}
  /\ links[i].wire = <<>>
  /\ links' = [links EXCEPT ![i].state = "closed", ![i].timer = FALSE]
  /\ UNCHANGED <<listening, env, calls, served>>

\* the await of the tool handler goes on: the handler returns to the client
ToolReturn(r) ==
  /\ calls[r].state \in {"fulfilled", "rejected"}
  /\ calls[r].result = <<>>
  /\ calls' = [calls EXCEPT ![r].result = <<toolHandler(calls[r])>>]
  /\ UNCHANGED <<listening, env, links, served>>

ProxyNext ==
  \/ Listen
  \/ Shutdown
  \/ \E r \in Calls : SendToExtension(r)
  \/ \E i \in 1..Len(links) : OnConnect(i)
  \/ \E i \in 1..Len(links) : OnSocketError(i)
  \/ \E i \in 1..Len(links) : BridgeAnswer(i)
  \/ \E i \in 1..Len(links) : \E n \in {1, Len(links[i].wire)} :
       ProxyOnData(i, n)
  \/ \E i \in 1..Len(links) : OnTimeout(i)
  \/ \E i \in 1..Len(links) : PeerEnd(i)
  \/ \E r \in Calls : ToolReturn(r)

\* the proxy is started with any setting of the variable
ProxyInit ==
  /\ Created
  /\ Subscribed(3)
  /\ maxBufferLines = MaxCap
  /\ chunk = NoChunk
  /\ listening = <<port>>
  /\ env \in EnvValues
  /\ calls = [r \in Calls |-> NoCall]
  /\ links = <<>>

ProxySpec == ProxyInit /\ [][ProxyNext]_vars

\* the characters "é": the name of a terminal
Accented == <<233>>

\* A terminal named "é" may be open; the client calls list_terminals and
\* the bytes of the response reach the proxy in reads of any lengths.
SplitNext ==
  \/ Opened("h2", Accented)
  \/ SendToExtension("r1")
  \/ \E i \in 1..Len(links) : OnConnect(i)
  \/ \E i \in 1..Len(links) : BridgeAnswer(i)
  \/ \E i \in 1..Len(links) : \E n \in 1..Len(links[i].wire) :
       ProxyOnData(i, n)
  \/ \E i \in 1..Len(links) : OnTimeout(i)
  \/ ToolReturn("r1")

SplitInit == ProxyInit /\ env = <<>>

SplitSpec == SplitInit /\ [][SplitNext]_vars

\* The event loop runs the callback of every event that has happened: a
\* connection attempt ends, what was written is read, a timer that stays
\* armed fires, and a settled promise resumes its await. What the other end
\* does (answer, close, reset) is under no obligation.
ProxyFairSpec ==
  /\ ProxySpec
  /\ \A r \in Calls : WF_vars(SendToExtension(r))
  /\ \A r \in Calls : WF_vars(ToolReturn(r))
  /\ \A i \in 1..Cardinality(Calls) :
       /\ WF_vars(i <= Len(links) /\ OnConnect(i))
       /\ WF_vars(i <= Len(links) /\ links[i].state = "connecting"
                    /\ OnSocketError(i))
       /\ WF_vars(i <= Len(links) /\ ProxyOnData(i, Len(links[i].wire)))
       /\ WF_vars(i <= Len(links) /\ OnTimeout(i))

(***************************************************************************)
(* Properties                                                              *)
(***************************************************************************)
\* the last Min(n, Len(seq)) elements of seq
LastN(seq, n) == SubSeq(seq, Len(seq) - Min(n, Len(seq)) + 1, Len(seq))

\* the TerminalData objects in the registry
LiveObjs == {terminals[i].obj : i \in 1..Len(terminals)}

\* C1: in every reachable state, for every capacity (0 and 1 included), the
\* buffer of every session holds at most maxBufferLines lines.
C1_BufferWithinCapacity ==
  \A i \in 1..Len(terminals) : Len(terminals[i].buffer) <= maxBufferLines

\* C2: the buffer of a session is the concatenation of the surviving lines of
\* the chunks written to it, in order, truncated to its last maxBufferLines
\* lines.
C2_BufferIsLastLines ==
  \A i \in 1..Len(terminals) :
    terminals[i].buffer = LastN(terminals[i].appended, maxBufferLines)

\* C3: a session keeps the identifier it was created with, and no two
\* sessions ever created (a handle opened again after its close included)
\* carry the same identifier.
C3_IdentifierNeverReused ==
  /\ \A i \in 1..Len(terminals) : terminals[i].id = hist[terminals[i].obj].id
  /\ \A a, b \in 1..Len(hist) : a # b => hist[a].id # hist[b].id

\* the text "not found"
NotFoundText == <<110, 111, 116, 32, 102, 111, 117, 110, 100>>

\* a letter and its capital are the same letter
SameLetter(c, d) ==
  \/ c = d
  \/ c \in 65..90 /\ d = c + 32
  \/ d \in 65..90 /\ c = d + 32

\* t occurs in s, letter case ignored
ContainsIgnoringCase(s, t) ==
  \E off \in 0..(Len(s) - Len(t)) :
    \A k \in 1..Len(t) : SameLetter(s[off + k], t[k])

\* the live sessions whose display name contains q, letter case ignored
NameMatches(q) ==
  {i \in 1..Len(terminals) : ContainsIgnoringCase(terminals[i].name, q)}

\* a live session has q as its identifier, or q in its name ignoring case
Resolves(q) ==
  (\E i \in 1..Len(terminals) : terminals[i].id = q) \/ NameMatches(q) # {}

\* the TerminalData objects whose handle was closed
ClosedObjs == {o \in 1..Len(hist) : hist[o].closed}

\* the TerminalData objects that the first n summaries of list_terminals
\* stand for
ListedObjs(n) == {getAllTerminals[k].obj : k \in 1..n}

\* the identifier and the display name of TerminalData object o
TextsOf(o) == {hist[o].id, hist[o].name}

\* C4 as stated: once a session is closed, list_terminals omits it and
\* get_terminal_output for its identifier or for its display name returns
\* success:false with a not-found error, in every later state.
C4_ClosedIsNotFound ==
  /\ last.op = "list_terminals" =>
       \A o \in ClosedObjs : o \notin ListedObjs(last.res.count)
  /\ last.op = "get_terminal_output" =>
       \A o \in ClosedObjs : \A q \in TextsOf(o) :
         last.args.terminal_name = <<q>> =>
           /\ ~last.res.success
           /\ Includes(last.res.error, NotFoundText)

\* C4 amended: closed(handle) removes the session in that step; afterwards
\* list_terminals never shows it, and get_terminal_output for its identifier
\* or its (non-empty) display name never answers with it: the answer is
\* success:false with a not-found error, unless a live session has that text
\* as identifier or contains it in its name ignoring case, and then the
\* answer is that live session.
C4_ClosedIsNeverReturned ==
  /\ last.op = "closed" => LiveIndex(last.h) = 0
  /\ last.op = "list_terminals" =>
       \A o \in ClosedObjs : o \notin ListedObjs(last.res.count)
  /\ last.op = "get_terminal_output" =>
       \A o \in ClosedObjs : \A q \in TextsOf(o) \ {<<>>} :
         last.args.terminal_name = <<q>> =>
           IF Resolves(q)
             THEN /\ last.res.success
                  /\ getTerminal(q) # 0
                  /\ terminals[getTerminal(q)].obj # o
                  /\ last.res.terminal
                       = OrElse(terminals[getTerminal(q)].name,
                                terminals[getTerminal(q)].id)
             ELSE /\ ~last.res.success
                  /\ Includes(last.res.error, NotFoundText)

\* a closed session asked for by its identifier while another session lives
C4_Witness ==
  /\ last.op = "get_terminal_output"
  /\ Len(terminals) > 0
  /\ \E o \in ClosedObjs :
       /\ last.args.terminal_name = <<hist[o].id>>
       /\ ~last.res.success
       /\ Includes(last.res.error, NotFoundText)

\* C5: opened(handle) for a handle with a live session changes nothing of
\* the registry (number of sessions, identifier, name, buffer, timestamps);
\* opened creates a session, appended with an empty buffer, exactly when the
\* handle has none.
C5_OpenedOnLiveIsNoOp ==
  [][last'.op = "opened" => \A h \in Handles :
       last'.h = h =>
         IF LiveIndex(h) # 0
           THEN terminals' = terminals
           ELSE /\ Len(terminals') = Len(terminals) + 1
                /\ SubSeq(terminals', 1, Len(terminals)) = terminals
                /\ terminals'[Len(terminals')].buffer = <<>>
                /\ terminals'[Len(terminals')].obj \notin LiveObjs
                /\ LiveIndex(h)' = Len(terminals')
    ]_vars

\* opened arrived for a handle whose session already holds lines
C5_Witness ==
  /\ last.op = "opened"
  /\ last.live
  /\ terminals[LiveIndex(last.h)].buffer # <<>>

\* C6: dataWritten and closed for a handle without a live session leave the
\* sessions, their buffers and their timestamps as they are.
C6_NoSessionIsNoOp ==
  [][last'.op \in {"dataWritten", "closed"} => \A h \in Handles :
       (last'.h = h /\ LiveIndex(h) = 0) => terminals' = terminals
    ]_vars

\* data arrived for a closed handle while another session is live
C6_Witness ==
  /\ last.op = "dataWritten"
  /\ ~last.live
  /\ Len(terminals) > 0
  /\ \E o \in ClosedObjs : hist[o].id = terminalToIdMap[last.h]

\* C7: a query that is the identifier of a live session resolves to that
\* session, whatever the names of the sessions registered before it.
C7_IdentifierFirst ==
  last.op = "getTerminal" =>
    \A i \in 1..Len(terminals) : terminals[i].id = last.q => last.res = i

\* getTerminal was asked for the identifier of the second session, which the
\* name of the first session contains
C7_Witness ==
  /\ last.op = "getTerminal"
  /\ Len(terminals) = 2
  /\ terminals[2].id = last.q
  /\ 1 \in NameMatches(last.q)
  /\ last.res = 2

\* C8: a query that is no live identifier resolves to the earliest
\* registered live session whose name contains it ignoring case, to
\* undefined exactly when there is none; a closed session is never returned.
C8_EarliestNameMatch ==
  last.op = "getTerminal" =>
    /\ (\A i \in 1..Len(terminals) : terminals[i].id # last.q) =>
         IF NameMatches(last.q) = {}
           THEN last.res = 0
           ELSE /\ last.res \in NameMatches(last.q)
                /\ \A j \in NameMatches(last.q) :
                     terminals[last.res].obj <= terminals[j].obj
    /\ last.res # 0 => terminals[last.res].obj \notin ClosedObjs

\* "B" was asked for while two live sessions have a b in their names and the
\* first one, Terminal-1-b, was found
C8_Witness ==
  /\ last.op = "getTerminal"
  /\ last.q = <<66>>
  /\ NameMatches(last.q) = {1, 2}
  /\ last.res = 1
  /\ terminals[1].obj < terminals[2].obj

\* C9: getTerminalBuffer returns null exactly when the query does not
\* resolve; otherwise all lines joined when lines is omitted, and the last
\* min(lines, L) lines joined for every lines >= 0.
C9_LastLinesJoined ==
  last.op = "getTerminalBuffer" =>
    IF ~Resolves(last.q)
      THEN last.res = Null
      ELSE LET buffer == terminals[getTerminal(last.q)].buffer
           IN IF last.lines = <<>>
                THEN last.res = Text(Join(buffer, LF))
                ELSE last.res = Text(Join(LastN(buffer, last.lines[1]), LF))

\* C10: clearTerminalBuffer returns true exactly when the query resolves;
\* then the buffer of the resolved session is emptied and the session is
\* otherwise as before, as is every other session, and getTerminalBuffer
\* gives the empty text afterwards; when it returns false the registry is
\* unchanged.
C10_ClearOnlyTheResolved ==
  /\ [][last'.op = "clearTerminalBuffer" => \A q \in Queries :
         last'.q = q =>
           \A i \in {getTerminal(q)} :
             /\ last'.res = Resolves(q)
             /\ IF Resolves(q)
                  THEN /\ i # 0
                       /\ terminals' =
                            [terminals EXCEPT ![i].buffer = <<>>,
                                              ![i].appended = <<>>]
                  ELSE terminals' = terminals
             /\ UNCHANGED <<maxBufferLines, terminalToIdMap, terminalCounter,
                            hist>>
      ]_vars
  /\ [](last.op = "clearTerminalBuffer" /\ last.res =>
          getTerminalBuffer(last.q, <<>>) = Text(<<>>))

\* a buffer with lines was cleared while the other session kept its lines
C10_Witness ==
  /\ last.op = "clearTerminalBuffer"
  /\ last.res
  /\ last.dropped > 0
  /\ terminals[getTerminal(last.q)].buffer = <<>>
  /\ \E j \in 1..Len(terminals) : terminals[j].buffer # <<>>

(***************************************************************************)
(* C11: get_terminal_output on an empty registry                           *)
(***************************************************************************)
\* C11, as the specification states it: when no session is registered, a
\* get_terminal_output call that carries a terminal_name, whatever its text,
\* returns success false with an error that contains "not found".
C11_EmptyRegistryNotFound ==
  last.op = "get_terminal_output" /\ terminals = <<>>
      /\ last.args.terminal_name # <<>> =>
    /\ ~last.res.success
    /\ Includes(last.res.error, NotFoundText)

\* C11, amended: when no session is registered, a get_terminal_output call
\* that carries a non-empty terminal_name returns success false with an error
\* that contains "not found".
C11_EmptyRegistryNonEmptyQuery ==
  last.op = "get_terminal_output" /\ terminals = <<>>
      /\ last.args.terminal_name # <<>>
      /\ last.args.terminal_name # <<(<<>>)>> =>
    /\ ~last.res.success
    /\ Includes(last.res.error, NotFoundText)

\* a named get_terminal_output call was made after the only session closed
C11_Witness ==
  /\ last.op = "get_terminal_output"
  /\ terminals = <<>>
  /\ hist # <<>>
  /\ last.args.terminal_name = <<hist[1].name>>
  /\ ~last.res.success
  /\ Includes(last.res.error, NotFoundText)

(***************************************************************************)
(* C13: the sessions listed by a get_terminal_output that finds none       *)
(***************************************************************************)
\* the available_terminals of the recorded result, empty when it has none
Available ==
  IF "available_terminals" \in DOMAIN last.res
    THEN last.res.available_terminals
    ELSE <<>>

\* the text a live session is listed by: its name, its identifier without
LabelOf(t) == IF t.name # <<>> THEN t.name ELSE t.id

\* C13: when the terminal_name of a get_terminal_output call resolves to no
\* session, the result has success false and its list has one entry for each
\* session live at the call, in the order of the registry, the name of the
\* session or its identifier when it has no name, and no other entry, so
\* none that stands for a session that was closed.
C13_NotFoundListsLive ==
  last.op = "get_terminal_output" /\ last.args.terminal_name # <<>>
      /\ ~Resolves(last.args.terminal_name[1]) =>
    /\ ~last.res.success
    /\ Len(Available) = Len(terminals)
    /\ \A k \in 1..Len(terminals) : Available[k] = LabelOf(terminals[k])

\* a call found no session while a named and an unnamed session were live
\* and another had been closed
C13_Witness ==
  /\ last.op = "get_terminal_output"
  /\ last.args.terminal_name # <<>>
  /\ ~Resolves(last.args.terminal_name[1])
  /\ ClosedObjs # {}
  /\ \E i, j \in 1..Len(terminals) :
       /\ terminals[i].name = <<>> /\ Available[i] = terminals[i].id
       /\ terminals[j].name # <<>> /\ Available[j] = terminals[j].name

(***************************************************************************)
(* C14: the output and the line count of a successful get_terminal_output  *)
(***************************************************************************)
\* C14: a get_terminal_output call that succeeds returns as output the last
\* lines of the buffer of the session its terminal_name resolves to, joined
\* by newlines, as many as its lines argument says and 100 when it has none,
\* and as lines_returned the number of buffer lines in output, which is 0
\* when the buffer is empty.
C14_LastLinesCounted ==
  last.op = "get_terminal_output" /\ last.res.success =>
    LET buffer == terminals[getTerminal(last.args.terminal_name[1])].buffer
        maxLines == IF last.args.lines = <<>> THEN 100 ELSE last.args.lines[1]
        shown == LastN(buffer, maxLines)
    IN /\ last.res.output = Join(shown, LF)
       /\ last.res.lines_returned = Len(shown)

(***************************************************************************)
(* C15: list_terminals                                                     *)
(***************************************************************************)
\* C15: every list_terminals call returns success true, a count equal to the
\* number of live sessions and as many summaries; each live session has
\* exactly one summary, and its bufferLines is the length of the buffer of
\* that session at the call; without sessions count is 0 and the list empty.
C15_ListCountsLive ==
  last.op = "list_terminals" =>
    /\ last.res.success
    /\ last.res.count = Len(terminals)
    /\ Len(last.res.terminals) = Len(terminals)
    /\ \A i \in 1..Len(terminals) :
         /\ \E k \in 1..Len(last.res.terminals) :
              /\ last.res.terminals[k].id = terminals[i].id
              /\ last.res.terminals[k].bufferLines = Len(terminals[i].buffer)
         /\ \A k, l \in 1..Len(last.res.terminals) :
              last.res.terminals[k].id = terminals[i].id
                /\ last.res.terminals[l].id = terminals[i].id => k = l
    /\ terminals = <<>> => last.res.count = 0 /\ last.res.terminals = <<>>

\* list_terminals was called with two live sessions, one of which had lost
\* lines to the capacity and the other had none
C15_Witness ==
  /\ last.op = "list_terminals"
  /\ last.res.count = 2
  /\ \E i, j \in 1..Len(terminals) :
       /\ terminals[i].buffer # <<>>
       /\ Len(terminals[i].appended) > Len(terminals[i].buffer)
       /\ terminals[j].buffer = <<>>
       /\ last.res.terminals[i].bufferLines = Len(terminals[i].buffer)
       /\ last.res.terminals[j].bufferLines = 0

(***************************************************************************)
(* The listener: what a read was answered with                             *)
(***************************************************************************)
\* the lines the 'data' handler went through in the recorded read
HandledLines == SelectSeq(Split(last.data, LF), NonBlank)

\* the recorded read delivered frame k whole and nothing else
ReadIsFrame(k) ==
  last.op = "data" /\ last.before = <<>> /\ HandledLines = <<FrameText(k)>>

\* the payload of a tool result
PayloadOf(response) == response.result[1].content[1].text.json

\* frame k invokes tool name with an id
Invokes(k, name) ==
  /\ Frames[k].id # <<>>
  /\ Frames[k].method = <<"tools/call">>
  /\ Frames[k].params # <<>>
  /\ Frames[k].params[1].name = <<name>>

(***************************************************************************)
(* C12: get_terminal_output without a terminal_name                        *)
(***************************************************************************)
\* C12: a get_terminal_output invocation whose arguments lack terminal_name,
\* or that has no arguments at all, is answered with one response that is a
\* result, not an error, and whose payload has success false and the
\* validation message.
C12_NoQueryIsValidationFailure ==
  \A k \in 1..Len(Frames) :
    /\ ReadIsFrame(k)
    /\ Invokes(k, "get_terminal_output")
    /\ \/ Frames[k].params[1].arguments = <<>>
       \/ Frames[k].params[1].arguments[1].terminal_name = <<>>
    => /\ Len(last.writes) = 1
       /\ last.writes[1].error = <<>>
       /\ last.writes[1].result # <<>>
       /\ ~PayloadOf(last.writes[1]).success
       /\ PayloadOf(last.writes[1]).error = RequiredError

(***************************************************************************)
(* C16: exceptions and the router                                          *)
(***************************************************************************)
\* C16: for every tools/call request with an id, without params, without a
\* tool name or without arguments as well, handleRequest does not throw: it
\* returns a response with the id of the request, and when the tool raised a
\* fault the response is an error whose message carries the message of the
\* fault.
C16_RouterNeverThrows ==
  \A k \in 1..Len(Frames) :
    /\ ReadIsFrame(k)
    /\ Frames[k].id # <<>>
    /\ Frames[k].method = <<"tools/call">>
    => \A call \in {handleRequest(Frames[k])} :
         /\ ~call.throws
         /\ Len(call.value) = 1
         /\ call.value[1].id = Frames[k].id[1]
         /\ last.writes = call.value
         /\ \A fault \in {toolResult(Frames[k].params[1].name,
                                     Frames[k].params[1].arguments)} :
              Invokes(k, "get_terminal_output") /\ fault.throws =>
                /\ call.value[1].error # <<>>
                /\ call.value[1].error[1].message[2] = fault.message

(***************************************************************************)
(* C17: one response, with the id of the frame                             *)
(***************************************************************************)
\* the lines that the recorded read completed: what was received on the
\* connection between two newlines, or before the first one
CompleteLines ==
  LET all == Split(last.before \o last.data, LF)
  IN SubSeq(all, 1, Len(all) - 1)

\* how many of the completed lines are a frame with the id v
FramesWithId(v) ==
  Cardinality({i \in 1..Len(CompleteLines) :
                 \E k \in 1..Len(Frames) :
                   CompleteLines[i] = FrameText(k) /\ Frames[k].id = <<v>>})

\* how many responses with the id v the recorded read was answered with
WritesWithId(v) ==
  Cardinality({j \in 1..Len(last.writes) : last.writes[j].id = v})

\* C17: every frame with an id that a connection has received is answered
\* with exactly one response that has the id of the frame: after every
\* read, for every id, the frames the read completed and the responses
\* written are equally many.
C17_OneResponsePerId ==
  last.op = "data" => \A v \in {"1", "2"} : FramesWithId(v) = WritesWithId(v)

(***************************************************************************)
(* C18: notifications                                                      *)
(***************************************************************************)
\* the text is frame k, or its first half when more of it is to come
IsTextOf(text, k) == text = FrameText(k) \/ text = <<FrameText(k)[1]>>

\* C18: a frame without an id is never answered, whatever its method and
\* its params: a read in which the connection received nothing but frames
\* without an id, or parts of them, writes nothing back.
C18_NotificationsUnanswered ==
  /\ last.op = "data"
  /\ \A i \in 1..Len(CompleteLines) :
       \E k \in 1..Len(Frames) :
         Frames[k].id = <<>> /\ CompleteLines[i] = FrameText(k)
  /\ \/ sockets[last.c].partial = <<>>
     \/ \E k \in 1..Len(Frames) :
          Frames[k].id = <<>> /\ IsTextOf(sockets[last.c].partial, k)
  => last.writes = <<>>

(***************************************************************************)
(* C19: a method that is not recognized                                    *)
(***************************************************************************)
\* the methods handleRequest has a case for
KnownMethods ==
  {"initialize", "ping", "tools/list", "tools/call", "resources/list",
   "prompts/list"}

\* frame k is a request, with the id v, for a method that is not recognized
IsUnknownMethod(k, v) ==
  /\ Frames[k].id = <<v>>
  /\ \/ Frames[k].method = <<>>
     \/ Frames[k].method[1] \notin KnownMethods

\* frame k is a valid request with the id v
IsValidRequest(k, v) ==
  /\ Frames[k].id = <<v>>
  /\ Frames[k].method # <<>>
  /\ Frames[k].method[1] \in KnownMethods
  /\ Frames[k].method = <<"tools/call">> => Frames[k].params # <<>>

\* C19: a request with an id for a method that is not recognized is answered
\* with an error of code -32601 that has the id of the request; the read
\* leaves the connection open; and on a connection on which such an error
\* was written before, every valid request is still answered with a
\* response that has its id.
C19_UnknownMethodThenAnswered ==
  last.op = "data" =>
    /\ sockets[last.c].state = "OPEN"
    /\ \A v \in {"1", "2"} :
         /\ Cardinality({i \in 1..Len(CompleteLines) :
                           \E k \in 1..Len(Frames) :
                             /\ CompleteLines[i] = FrameText(k)
                             /\ IsUnknownMethod(k, v)})
              = Cardinality({j \in 1..Len(last.writes) :
                               /\ last.writes[j].id = v
                               /\ last.writes[j].error # <<>>
                               /\ last.writes[j].error[1].code = -32601
                               /\ last.writes[j].error[1].message[1]
                                    = "Method not found: "})
         /\ "method" \in last.faults =>
              Cardinality({i \in 1..Len(CompleteLines) :
                             \E k \in 1..Len(Frames) :
                               /\ CompleteLines[i] = FrameText(k)
                               /\ IsValidRequest(k, v)})
                <= WritesWithId(v)

(***************************************************************************)
(* C20: lines that are no frame                                            *)
(***************************************************************************)
\* the line is the whole text of one of the frames
IsFrameLine(line) == \E k \in 1..Len(Frames) : line = FrameText(k)

\* how many parse-error responses the recorded read was answered with
ParseErrorWrites ==
  Cardinality({j \in 1..Len(last.writes) :
                 /\ last.writes[j].error # <<>>
                 /\ last.writes[j].error[1].code = -32700})

\* C20: every line that is not blank and is not a well-formed frame, be it
\* no JSON or JSON that is no request object, is answered with exactly one
\* parse-error response of code -32700, and a well-formed frame with none:
\* after every read, the parse-error responses written are as many as the
\* completed lines that are neither blank nor a frame; the read leaves the
\* connection open; and on a connection on which a parse error was written
\* before, every valid request is still answered with its id.
C20_ParseErrorPerBadLine ==
  last.op = "data" =>
    /\ sockets[last.c].state = "OPEN"
    /\ ParseErrorWrites
         = Cardinality({i \in 1..Len(CompleteLines) :
                          /\ Trim(CompleteLines[i]) # <<>>
                          /\ ~IsFrameLine(CompleteLines[i])})
    /\ "parse" \in last.faults =>
         \A v \in {"1", "2"} :
           Cardinality({i \in 1..Len(CompleteLines) :
                          \E k \in 1..Len(Frames) :
                            /\ CompleteLines[i] = FrameText(k)
                            /\ IsValidRequest(k, v)})
             <= WritesWithId(v)

(***************************************************************************)
(* C21: a tool that is not declared                                        *)
(***************************************************************************)
\* the tools handleToolsCall has a case for
DeclaredTools == {"list_terminals", "get_terminal_output"}

\* frame k is a tools/call request with an id and with params whose name is
\* absent or is the name of no declared tool
InvokesUnknown(k) ==
  /\ Frames[k].id # <<>>
  /\ Frames[k].method = <<"tools/call">>
  /\ Frames[k].params # <<>>
  /\ \/ Frames[k].params[1].name = <<>>
     \/ Frames[k].params[1].name[1] \notin DeclaredTools

\* the session state of the capture service
service == <<terminals, terminalToIdMap, terminalCounter>>

\* C21: a tools/call request with an id that names a tool other than
\* list_terminals and get_terminal_output is answered with exactly one
\* response: an error of code -32601 with the id of the request and the
\* message "Unknown tool: " followed by the name. The response is the same
\* whatever the registry holds, and the read that delivers the request
\* leaves the sessions of the capture service as they were.
C21_UnknownToolIsMethodNotFound ==
  /\ [](\A k \in 1..Len(Frames) :
          ReadIsFrame(k) /\ InvokesUnknown(k) =>
            last.writes
              = <<[jsonrpc |-> "2.0", id |-> Frames[k].id[1], result |-> <<>>,
                   error |-> <<[code |-> -32601,
                                message |->
                                  <<"Unknown tool: ",
                                    Interpolate(Frames[k].params[1].name)>>]>>]>>)
  /\ [][last'.op = "data" =>
          \A k \in 1..Len(Frames) :
            InvokesUnknown(k) /\ last'.data = FrameText(k) \o <<LF>> =>
              UNCHANGED service]_vars

\* an unknown tool was invoked while a session with a line in its buffer was
\* registered
C21_Witness ==
  /\ ReadIsFrame(15)
  /\ InvokesUnknown(15)
  /\ last.writes # <<>>
  /\ \E i \in 1..Len(terminals) : terminals[i].buffer # <<>>

(***************************************************************************)
(* C22: no escape byte is stored                                           *)
(***************************************************************************)
\* "Build OK"
BuildOKLine == <<66, 117, 105, 108, 100, SP, 79, 75>>

\* C22: whatever raw chunks were written, no line of a buffer holds the
\* character \x1B; and writing the chunk "\x1b[32mBuild OK\x1b[0m\n" to a
\* session with an empty buffer leaves that buffer with the single line
\* "Build OK".
C22_NoEscapeStored ==
  /\ [](\A i \in 1..Len(terminals) :
          \A j \in 1..Len(terminals[i].buffer) :
            \A n \in 1..Len(terminals[i].buffer[j]) :
              terminals[i].buffer[j][n] # ESC)
  /\ [][/\ chunk.raw = BuildOK
         /\ LiveIndex("h1") # 0
         /\ terminals[LiveIndex("h1")].buffer = <<>>
         /\ DataWritten("h1", BuildOK)
         => terminals'[LiveIndex("h1")].buffer = <<BuildOKLine>>]_vars

\* a sequence cut short by an escape at the end of the chunk was written:
\* "[" is stored
C22_Witness ==
  /\ chunk.raw = <<ESC, 91, ESC>>
  /\ Len(terminals) = 1
  /\ terminals[1].buffer = <<(<<91>>)>>

(***************************************************************************)
(* C23: stripping twice                                                    *)
(***************************************************************************)
\* C23: stripAnsiCodes returns for what it returned what it was given:
\* for every raw chunk x, stripAnsiCodes(stripAnsiCodes(x)) is
\* stripAnsiCodes(x); and a line of a buffer written as a chunk of its own
\* pushes that line and nothing else.
C23_StripIdempotent ==
  /\ chunk.again # <<>> => chunk.again = chunk.out
  /\ \A i \in 1..Len(terminals) :
       \A j \in 1..Len(terminals[i].buffer) :
         /\ stripAnsiCodes(terminals[i].buffer[j]) = terminals[i].buffer[j]
         /\ SurvivingLines(terminals[i].buffer[j] \o <<LF>>)
              = <<terminals[i].buffer[j]>>

\* "xx" and two backspaces were stripped to "x", "x" was stripped again, and
\* "x" is stored
C23_Witness ==
  /\ chunk.raw = <<120, 120, BS, BS>>
  /\ chunk.out = <<(<<120>>)>>
  /\ chunk.again # <<>>
  /\ Len(terminals) = 1
  /\ terminals[1].buffer = <<(<<120>>)>>

(***************************************************************************)
(* C24: every call of the proxy completes                                  *)
(***************************************************************************)
\* C24: every tool call that sendToExtension has taken up is in the end
\* answered by its handler, with the listener's response or with a
\* structured failure, whatever the other end of the socket does; and once
\* the handler has returned, what it returned stays.
C24_EveryCallCompletes ==
  /\ \A r \in Calls :
       (calls[r].state = "pending") ~> (calls[r].result # <<>>)
  /\ [][\A r \in Calls :
          calls[r].result # <<>> => calls'[r].result = calls[r].result]_vars

(***************************************************************************)
(* C25: one socket for each call                                           *)
(***************************************************************************)
\* C25: every call that sendToExtension has taken up has a socket of its
\* own, made for it; a socket carries no frame before it is connected and
\* exactly one frame, the request of its call, once it is connected, and
\* never a second one; and as soon as a response was read from a socket the
\* proxy has ended that socket.
C25_OneConnectionPerCall ==
  /\ \A i, j \in 1..Len(links) : links[i].call = links[j].call => i = j
  /\ \A r \in Calls :
       calls[r].state = "pending" => \E i \in 1..Len(links) : links[i].call = r
  /\ \A i \in 1..Len(links) :
       /\ links[i].frames \in {<<>>, <<FrameOf(links[i].call)>>}
       /\ links[i].state = "connecting" => links[i].frames = <<>>
       /\ links[i].state \in {"open", "ended"} => Len(links[i].frames) = 1
       /\ calls[links[i].call].state = "fulfilled" =>
            links[i].state \in {"ended", "closed"}

\* both calls were answered, each on its own socket, and both sockets were
\* ended by the proxy
C25_Witness ==
  /\ Len(links) = 2
  /\ \A i \in 1..2 :
       /\ links[i].state = "ended"
       /\ Len(links[i].frames) = 1
       /\ calls[links[i].call].state = "fulfilled"
       /\ calls[links[i].call].result # <<>>

(***************************************************************************)
(* C27: the port                                                           *)
(***************************************************************************)
\* C27: for every setting of VSCODE_TERMINAL_MCP_PORT that is unset, empty
\* or the text of a number: while the listener listens, it listens on 9876
\* when the variable is unset or empty and on the port the variable names
\* when it is set, and every socket of the proxy was made for the port the
\* listener listens on.
C27_ProxyPortIsBridgePort ==
  listening # <<>> /\ EXTENSION_PORT # NaN =>
    /\ listening[1] = IF env = <<>> \/ env[1] = <<>>
                        THEN 9876 ELSE parseInt(env[1])
    /\ \A i \in 1..Len(links) : links[i].port = listening[1]

(***************************************************************************)
(* C26: dispose                                                            *)
(***************************************************************************)
\* dispose has been called: initialize left disposables with two or three
\* elements, and dispose alone empties it
Disposed == disposables = <<>>

\* C26: no listener is ever disposed of twice, however often dispose is
\* called; and once dispose has been called, every listener that initialize
\* registered has been disposed of exactly once, the host has no listener
\* left, and the registry is empty and stays empty whatever events the host
\* fires.
C26_DisposeReleasesOnce ==
  /\ \A e \in DOMAIN subscriptions : subscriptions[e].released <= 1
  /\ Disposed =>
       /\ \A e \in DOMAIN subscriptions :
            /\ ~subscriptions[e].live
            /\ subscriptions[e].released
                 = IF subscriptions[e].made THEN 1 ELSE 0
       /\ terminals = <<>>

\* dispose was called with a session registered, and a second time after it
C26_Witness ==
  /\ hist # <<>>
  /\ last.op = "dispose"
  /\ ~last.changed
  /\ \A e \in DOMAIN subscriptions : subscriptions[e].released = 1
  /\ terminals = <<>>

(***************************************************************************)
(* C28: frames and reads                                                   *)
(***************************************************************************)
\* what the for loop writes for lines, in order
ResponsesTo(lines) == HandleLines(SelectSeq(lines, NonBlank), FALSE).writes

\* C28: what is written on a connection depends on the characters received
\* and not on the reads they came in: every read is answered with the
\* responses to the lines it completed, be they completed by this read
\* alone or begun in an earlier one, and a part of a line that is not yet
\* completed is answered with nothing.
C28_ReadsDoNotMatter ==
  last.op = "data" => last.writes = ResponsesTo(CompleteLines)

(***************************************************************************)
(* C29: the order of the responses                                         *)
(***************************************************************************)
\* the ids of the frames with an id among lines, in order
RECURSIVE RequestIds(_)
RequestIds(lines) ==
  IF lines = <<>> THEN <<>>
  ELSE LET k == IF Len(Head(lines)) = 2 /\ Head(lines)[1] >= TextBase
                  THEN (Head(lines)[1] - TextBase) \div 2 ELSE 0
       IN (IF k \in 1..Len(Frames) /\ Head(lines) = FrameText(k)
               /\ Frames[k].id # <<>>
             THEN Frames[k].id ELSE <<>>)
            \o RequestIds(Tail(lines))

\* the ids of the responses among writes that have one, in order
RECURSIVE ResponseIds(_)
ResponseIds(writes) ==
  IF writes = <<>> THEN <<>>
  ELSE (IF Head(writes).id # NullId THEN <<Head(writes).id>> ELSE <<>>)
         \o ResponseIds(Tail(writes))

\* C29: on a connection the responses are written in the order of the
\* frames: after every read, the ids of the responses written are, in
\* order, the ids of the frames with an id that the read completed.
C29_ResponsesInOrder ==
  last.op = "data" => ResponseIds(last.writes) = RequestIds(CompleteLines)

(***************************************************************************)
(* C30: one connection and the others                                      *)
(***************************************************************************)
\* C30: an 'error', a 'close' or a read on one connection, whatever was
\* read and whatever handleRequest did with it, leaves the sessions of the
\* service, the port the server listens on and every other connection as
\* they were; the server listens in every state; and on a connection whose
\* neighbour is closed or was answered with an error, a valid request that
\* arrives whole is answered with one response that has its id.
C30_FaultsStayLocal ==
  /\ [](listening = <<port>>)
  /\ [](\A k \in 1..Len(Frames) : \A v \in {"1", "2"} :
          /\ ReadIsFrame(k)
          /\ IsValidRequest(k, v)
          /\ \E c \in Conns \ {last.c} :
               sockets[c].state = "CLOSED" \/ sockets[c].faults # {}
          => /\ Len(last.writes) = 1
             /\ last.writes[1].id = v
             /\ sockets[last.c].state = "OPEN")
  /\ [][last'.op \in {"error", "close", "data"} =>
          /\ UNCHANGED <<service, listening>>
          /\ \A d \in Conns \ {last'.c} : sockets'[d] = sockets[d]]_vars

\* c1 is closed, a session is registered, and a tool call on c2 is answered
C30_Witness ==
  /\ ReadIsFrame(10)
  /\ last.c = "c2"
  /\ sockets["c1"].state = "CLOSED"
  /\ Len(last.writes) = 1
  /\ last.writes[1].error = <<>>
  /\ terminals # <<>>

(***************************************************************************)
(* C31: every stored line is in normal form                                *)
(***************************************************************************)
\* the lines of every live session's buffer
StoredLines ==
  UNION {{terminals[i].buffer[j] : j \in 1..Len(terminals[i].buffer)} :
           i \in 1..Len(terminals)}

NormalForm(line) ==
  /\ line # <<>>
  /\ ~IsWhiteSpace(line[1])
  /\ ~IsWhiteSpace(line[Len(line)])
  /\ \A i \in 1..Len(line) : line[i] # LF
  /\ \A i \in 1..(Len(line) - 1) : ~(line[i] = SP /\ line[i + 1] = SP)
  /\ ~isNoiseLine(line)

\* C31: in every reachable state every stored buffer line is non-empty, has
\* no white space at its start or its end, holds no newline and no run of
\* two or more spaces, and is no noise line (a numeric-prefixed control
\* payload, a bare prompt glyph, a shell-integration marker).
C31_StoredLinesNormal == \A line \in StoredLines : NormalForm(line)

\* the chunk "x \x01 x" was written: the control character is removed
\* before the spaces around it are collapsed, and "x x" is stored
C31_Witness ==
  /\ last.op = "dataWritten"
  /\ chunk.raw = <<120, SP, 1, SP, 120>>
  /\ StoredLines = {<<120, SP, 120>>}

(***************************************************************************)
(* C32: no control character is stored                                     *)
(***************************************************************************)
\* C32: in every reachable state no stored buffer line contains a character
\* in the range 0x00-0x1F (bell, backspace, carriage return and horizontal
\* tab included).
C32_NoControlStored ==
  \A line \in StoredLines : \A i \in 1..Len(line) : line[i] \notin 0..31

(***************************************************************************)
(* C33: the time stamps of a session                                       *)
(***************************************************************************)
\* C33: every dataWritten signal on a handle with a live session sets that
\* session's lastActivity to the current time, also when no line of the
\* chunk survives; no other operation changes it (clearing, reading,
\* listing, get_terminal_output, opened and closed signals for the sessions
\* that stay); createdAt never changes; and createdAt <= lastActivity holds
\* in every reachable state, the clock never going back.
C33_ActivityStamp ==
  /\ [](\A i \in 1..Len(terminals) :
          /\ terminals[i].createdAt <= terminals[i].lastActivity
          /\ terminals[i].lastActivity <= clock)
  /\ [][/\ clock' >= clock
        /\ terminals' # terminals \/ last'.op = "dataWritten" =>
             \A i \in 1..Len(terminals) : \A j \in 1..Len(terminals') :
               terminals'[j].obj = terminals[i].obj =>
                 /\ terminals'[j].createdAt = terminals[i].createdAt
                 /\ terminals'[j].lastActivity =
                      IF last'.op = "dataWritten" /\ i = LiveIndex(last'.h)
                        THEN clock
                        ELSE terminals[i].lastActivity]_vars

\* a chunk of which no line survived was written to a session created
\* earlier: its buffer is still empty and its lastActivity is the time of
\* the signal
C33_Witness ==
  /\ last.op = "dataWritten"
  /\ last.live
  /\ \E i \in 1..Len(terminals) :
       /\ i = LiveIndex(last.h)
       /\ terminals[i].appended = <<>>
       /\ terminals[i].createdAt < terminals[i].lastActivity
       /\ terminals[i].lastActivity = clock

(***************************************************************************)
(* C34: the completion of a process-id resolution                          *)
(***************************************************************************)
\* C34: however the completion of a process-id resolution interleaves with
\* opened, closed and dataWritten signals, it changes only the processId of
\* the session it was started for, which is undefined until then: no
\* buffer and no other field changes, the set of sessions stays (a session
\* closed meanwhile is not created again) and no other session gets the
\* processId, the session later created for the same handle included.
C34_ResolutionIsLocal ==
  [][IF last'.op = "processId"
       THEN /\ UNCHANGED <<terminalToIdMap, terminalCounter, hist>>
            /\ Len(terminals') = Len(terminals)
            /\ \A i \in 1..Len(terminals) :
                 terminals'[i] =
                   IF terminals[i].obj = last'.obj
                     THEN [terminals[i] EXCEPT !.processId = last'.pid]
                     ELSE terminals[i]
       ELSE \A j \in 1..Len(terminals') :
              IF \E i \in 1..Len(terminals) :
                   terminals[i].obj = terminals'[j].obj
                THEN \E i \in 1..Len(terminals) :
                       /\ terminals[i].obj = terminals'[j].obj
                       /\ terminals[i].processId = terminals'[j].processId
                ELSE terminals'[j].processId = Undefined]_vars

\* the resolution started for a session completes after its handle was
\* closed and opened again: the session created since, which has the same
\* identifier, is live and its processId is still undefined
C34_Witness ==
  /\ last.op = "processId"
  /\ hist[last.obj].closed
  /\ \E i \in 1..Len(terminals) :
       /\ terminals[i].id = hist[last.obj].id
       /\ terminals[i].obj > last.obj
       /\ terminals[i].processId = Undefined

(***************************************************************************)
(* C36: the wire protocol reads the capture service and never writes it    *)
(***************************************************************************)
\* C36: no frame on any connection (a request, a notification, a line that
\* is no JSON, an unknown method or tool) and no connecting, error or close
\* of a connection changes the set of sessions, a session's buffer or a
\* session's time stamps: every step of the listener leaves the capture
\* service as it was.
C36_WireIsReadOnly ==
  [][last'.op \in {"connect", "data", "error", "close"} =>
       UNCHANGED <<terminals, terminalToIdMap, terminalCounter, hist, clock,
                   maxBufferLines>>]_vars

\* after the initialized notification was received, get_terminal_output of
\* "b" returned the lines of a session, which are still in its buffer
C36_Witness ==
  /\ ReadIsFrame(13)
  /\ initialized
  /\ Len(last.writes) = 1
  /\ last.writes[1].error = <<>>
  /\ PayloadOf(last.writes[1]).success
  /\ \E i \in 1..Len(terminals) :
       /\ terminals[i].buffer # <<>>
       /\ PayloadOf(last.writes[1]).output = Join(terminals[i].buffer, LF)

(***************************************************************************)
(* C37: a response depends on its frame and on the registry only           *)
(***************************************************************************)
\* what a server that has received nothing before writes for each of lines,
\* taken alone, over the registry of this state
RECURSIVE AnsweredAlone(_)
AnsweredAlone(lines) ==
  IF lines = <<>> THEN <<>>
  ELSE HandleLine(Head(lines), FALSE).writes \o AnsweredAlone(Tail(lines))

\* C37: what is written for a frame is a function of the frame and of the
\* session registry at that time only: after every read, the responses are
\* those that a server which never received anything (no initialize, no
\* initialized notification, no frame on this or another connection) gives
\* to each line of the read taken alone.
C37_ResponsesAreMemoryless ==
  last.op = "data" => last.writes = AnsweredAlone(HandledLines)

\* a tool is invoked on the first connection of a server that never
\* received the initialized notification, and it is answered with the
\* lines of a session
C37_Witness ==
  /\ ReadIsFrame(13)
  /\ ~initialized
  /\ last.faults = {}
  /\ sockets[CHOOSE c \in Conns : c # last.c].state = "NONE"
  /\ Len(last.writes) = 1
  /\ last.writes[1].error = <<>>
  /\ PayloadOf(last.writes[1]).success
  /\ PayloadOf(last.writes[1]).output # <<>>

(***************************************************************************)
(* C35: a response that reaches the proxy in several reads                 *)
(***************************************************************************)
\* C35: when the listener's response line reaches the proxy in several
\* reads, the proxy resolves with that response once its last part has
\* arrived: a call is never resolved with anything but the response the
\* listener wrote (no part of it, no other value), and once all of the
\* response was read the call is resolved and not rejected.
C35_SplitResponseResolved ==
  \A i \in 1..Len(links) :
    /\ calls[links[i].call].state = "fulfilled" =>
         calls[links[i].call].value = links[i].sent
    /\ links[i].sent # <<>> /\ links[i].wire = <<>> /\ links[i].timer =>
         calls[links[i].call].state = "fulfilled"

====
